---------------------------- MODULE Spec2Model ----------------------------
(***************************************************************************)
(* Weaver: the local encrypted-vault subsystem.                            *)
(*                                                                         *)
(* The model follows the application shell (App.tsx), the login screen     *)
(* (LoginScreen) and the crypto service (cryptoService).  React state is   *)
(* one variable per useState/useRef cell; every event handler is one       *)
(* action, and an async handler is split at its await points.              *)
(*                                                                         *)
(* Cryptography is symbolic: PBKDF2, SHA-256 and AES-GCM are ideal         *)
(* functions.  A byte buffer is a sequence of cells; a salt or iv cell is  *)
(* a random byte, the first ciphertext cell names the key, the nonce and   *)
(* the plaintext, and every ciphertext cell its position, so that a buffer *)
(* authenticates under AES-GCM iff it is cell for cell the output of an    *)
(* encryption under that key and nonce.                                    *)
(***************************************************************************)
EXTENDS Integers, Sequences, FiniteSets, TLC

\* ------------------------------------------------------------------------
\* JavaScript values
\* ------------------------------------------------------------------------
NULL == "null"
UNDEFINED == "undefined"

\* obj.key : undefined when the object has no such key
Get(obj, key) == IF key \in DOMAIN obj THEN obj[key] ELSE UNDEFINED

\* { ...a, ...b }
Spread(a, b) == [k \in (DOMAIN a) \cup (DOMAIN b) |-> IF k \in DOMAIN b THEN b[k] ELSE a[k]]

\* the keys of the model's objects whose values are strings (the only values
\* that are ever undefined)
StringKeys == {"userId", "username", "passkeyCredentialId"}

\* an object as JSON.stringify writes it: keys whose value is undefined vanish
DropUndefined(obj) ==
    [k \in {j \in DOMAIN obj : j \notin StringKeys \/ obj[j] # UNDEFINED} |-> obj[k]]

\* null where a text (a base64 or JSON string) or an object is expected
NullText == [null |-> TRUE]
NullObj == [null |-> TRUE]

EmptyObj == [k \in {} |-> TRUE]

\* ------------------------------------------------------------------------
\* Program constants
\* ------------------------------------------------------------------------
DATA_VERSION == 7
SaltLen == 16
IvLen == 12
TagLen == 16
MinPasswordLen == 8

\* ------------------------------------------------------------------------
\* Bounds of the model
\* ------------------------------------------------------------------------
\* values crypto.getRandomValues can fill a salt or an iv with
MaxNonce == 1
\* a saved bundle carries settings.storage.quickAccessVault, itself a sealed
\* bundle: how deep vaults may nest in one another
MaxNesting == 1

Nonces == 0..MaxNonce

\* values the salt and the iv of a password reset's new vault are drawn from
MaxResealNonce == 0

ResealNonces == 0..MaxResealNonce

\* ------------------------------------------------------------------------
\* Strings: a string whose characters matter is a sequence of characters
\* ------------------------------------------------------------------------
IsSpace(c) == c = " "

ToLowerChar(c) == IF c = "R" THEN "r" ELSE IF c = "X" THEN "x" ELSE c

ToLowerCase(s) == [i \in 1..Len(s) |-> ToLowerChar(s[i])]

RECURSIVE TrimStart(_)
TrimStart(s) == IF s # <<>> /\ IsSpace(Head(s)) THEN TrimStart(Tail(s)) ELSE s

RECURSIVE TrimEnd(_)
TrimEnd(s) == IF s # <<>> /\ IsSpace(s[Len(s)]) THEN TrimEnd(SubSeq(s, 1, Len(s) - 1)) ELSE s

Trim(s) == TrimEnd(TrimStart(s))

\* ------------------------------------------------------------------------
\* cryptoService: codec, hash, key derivation, vault cipher
\* ------------------------------------------------------------------------
\* window.btoa over the bytes of a buffer
arrayBufferToBase64(buffer) == [b64 |-> buffer]

IsBase64(text) == DOMAIN text = {"b64"}

\* faulty variant: the last byte of the decoded text is lost
base64ToArrayBuffer_DropsLastByte(text) == SubSeq(text.b64, 1, Len(text.b64) - 1)

\* window.atob: defined on base64 text only (it throws on anything else)
base64ToArrayBuffer(text) == text.b64

\* crypto.subtle.digest('SHA-256', .)
Sha256(data) == [sha256 |-> data]

\* PBKDF2(password, salt, 200000, SHA-256) -> AES-256 key
getEncryptionKey(password, salt) == [pbkdf2 |-> password, salt |-> salt]

\* JSON.stringify of a bundle: undefined members are dropped, at the top
\* level, in settings and in settings.account
JsonStringify(data) ==
    LET top == DropUndefined(data)
        st  == IF "settings" \in DOMAIN top
               THEN LET s == DropUndefined(top.settings)
                    IN  IF "account" \in DOMAIN s
                        THEN [s EXCEPT !.account = DropUndefined(s.account)]
                        ELSE s
               ELSE EmptyObj
    IN  [json |-> IF "settings" \in DOMAIN top THEN [top EXCEPT !.settings = st] ELSE top]

\* JSON.parse; it throws on text that is not JSON
IsJson(text) == DOMAIN text = {"json"}
JsonParse(text) == text.json

\* TextEncoder.encode / TextDecoder.decode: the bytes of a text are one cell
TextEncode(text) == <<[utf8 |-> text]>>
IsTextEncoding(bytes) == Len(bytes) = 1 /\ DOMAIN bytes[1] = {"utf8"}
TextDecode(bytes) == bytes[1].utf8

\* hashText: SHA-256 of the trimmed, lower-cased text, in base64
hashText(text) == arrayBufferToBase64(Sha256(TextEncode(ToLowerCase(Trim(text)))))

\* AES-GCM: ciphertext cells followed by the 16 cells of the tag
\* (the first cell names key, nonce and plaintext; every cell its position)
AesGcmEncrypt(key, iv, plain) ==
    [i \in 1..(Len(plain) + TagLen) |->
        IF i = 1 THEN [key |-> key, iv |-> iv, of |-> plain, at |-> i]
                 ELSE [gcm |-> Len(plain), at |-> i]]

\* faulty variant: the key is not checked
AesGcmAuthentic_AnyKey(key, iv, data) ==
    /\ Len(data) >= TagLen
    /\ DOMAIN data[1] = {"key", "iv", "of", "at"}

\* does `data` authenticate under (key, iv)?
AesGcmAuthentic(key, iv, data) ==
    /\ Len(data) >= TagLen
    /\ DOMAIN data[1] = {"key", "iv", "of", "at"}
    /\ data = AesGcmEncrypt(key, iv, data[1].of)

AesGcmDecrypt(key, iv, data) == data[1].of

\* ArrayBuffer.slice(begin, end), indices clamped to the buffer
Slice(buf, begin, end) ==
    LET e == IF end > Len(buf) THEN Len(buf) ELSE end
    IN  IF begin >= e THEN <<>> ELSE SubSeq(buf, begin + 1, e)

RandomBytes(n, v) == [i \in 1..n |-> [byte |-> v]]

\* faulty variant: the iv is written before the salt
encryptForFile_IvFirst(data, password, saltDraw, ivDraw) ==
    LET salt == RandomBytes(SaltLen, saltDraw)
        iv   == RandomBytes(IvLen, ivDraw)
        key  == getEncryptionKey(password, salt)
    IN  iv \o salt \o AesGcmEncrypt(key, iv, TextEncode(JsonStringify(data)))

\* faulty variant: the iv is a constant of the program
encryptForFile_FixedIv(data, password, saltDraw, ivDraw) ==
    LET salt == RandomBytes(SaltLen, saltDraw)
        iv   == RandomBytes(IvLen, 0)
        key  == getEncryptionKey(password, salt)
    IN  salt \o iv \o AesGcmEncrypt(key, iv, TextEncode(JsonStringify(data)))

\* encryptForFile with the random draws made explicit
encryptForFile(data, password, saltDraw, ivDraw) ==
    LET salt == RandomBytes(SaltLen, saltDraw)
        iv   == RandomBytes(IvLen, ivDraw)
        key  == getEncryptionKey(password, salt)
        serializedData == TextEncode(JsonStringify(data))
        encryptedData  == AesGcmEncrypt(key, iv, serializedData)
    IN  salt \o iv \o encryptedData

DecryptionFailed == "La desencriptacion fallo. Revisa tu contrasena o el archivo puede estar corrupto."

\* faulty variant: a cipher mode without authentication, which checks neither
\* the iv nor the tag
decryptFromFile_Unauthenticated(fileBuffer, password) ==
    LET salt == Slice(fileBuffer, 0, SaltLen)
        data == Slice(fileBuffer, SaltLen + IvLen, Len(fileBuffer))
        key  == getEncryptionKey(password, salt)
    IN  IF /\ Len(data) >= 1
           /\ DOMAIN data[1] = {"key", "iv", "of", "at"}
           /\ data[1].key = key
           /\ IsTextEncoding(data[1].of)
           /\ IsJson(TextDecode(data[1].of))
        THEN [ok |-> TRUE, bundle |-> JsonParse(TextDecode(data[1].of))]
        ELSE [ok |-> FALSE, error |-> DecryptionFailed]

\* decryptFromFile: [ok |-> TRUE, bundle |-> b] or [ok |-> FALSE, error |-> message]
decryptFromFile(fileBuffer, password) ==
    LET salt == Slice(fileBuffer, 0, SaltLen)
        iv   == Slice(fileBuffer, SaltLen, SaltLen + IvLen)
        data == Slice(fileBuffer, SaltLen + IvLen, Len(fileBuffer))
        key  == getEncryptionKey(password, salt)
    IN  IF /\ AesGcmAuthentic(key, iv, data)
           /\ IsTextEncoding(AesGcmDecrypt(key, iv, data))
           /\ IsJson(TextDecode(AesGcmDecrypt(key, iv, data)))
        THEN [ok |-> TRUE, bundle |-> JsonParse(TextDecode(AesGcmDecrypt(key, iv, data)))]
        ELSE [ok |-> FALSE, error |-> DecryptionFailed]

\* ------------------------------------------------------------------------
\* Tampering with a file (the user's disk and the network are not trusted)
\* ------------------------------------------------------------------------
FlipByte(buf, i) == [buf EXCEPT ![i] = [flipped |-> buf[i]]]

Truncate(buf, n) == SubSeq(buf, 1, n)

\* ------------------------------------------------------------------------
\* App.tsx: defaults
\* ------------------------------------------------------------------------
initialAccount ==
    [userId |-> "", username |-> "Lector Anonimo", stingyMode |-> FALSE,
     tier |-> "free", tierExpiresAt |-> 0, writerRank |-> "C", rankPoints |-> 0,
     weaverins |-> 500, savingsGoal |-> 0, purchases |-> <<>>,
     parentalControls |-> NullObj,
     securityQuestions |-> <<>>,
     signingKeyPair |-> [privateKey |-> "{}", publicKey |-> "{}"]]

initialSettings ==
    [general |-> [uiMode |-> "standard"],
     account |-> initialAccount, storage |-> [quickAccessVault |-> NullText]]

NoModal == [kind |-> "none"]

\* the instant the page is first opened at (instants are numbers, 0 is the
\* null instant)
Now == 1

\* ------------------------------------------------------------------------
\* Inputs: passwords, answers, vault files that exist outside the device
\* ------------------------------------------------------------------------
Passwords == {"CorrectHorse1", "NewPass123"}

\* what is typed into the two fields of the reset form
NewPasswords == {"NewPass123", "short"}

Rex == <<"R", "x">>
RexTyped == <<" ", "r", "X", " ">>
Max == <<"m">>
Blank == <<>>
Answers == {Rex, RexTyped, Max, Blank}

\* a vault exported by the current version of the application on another device
AliceBundle ==
    [stories |-> <<"s1">>, presets |-> <<"p1">>, universes |-> <<"v1">>,
     settings |-> [account |-> [initialAccount EXCEPT
                                  !.userId = "u-alice", !.username = "alice",
                                  !.securityQuestions = <<[question |-> "pet", answerHash |-> hashText(Rex)],
                                                         [question |-> "city", answerHash |-> hashText(Max)]>>,
                                  !.signingKeyPair = [privateKey |-> "sk-alice", publicKey |-> "pk-alice"]],
                   storage |-> [quickAccessVault |-> NullText]],
     version |-> DATA_VERSION]

\* a vault written by an older version: fewer account fields, no universes
\* (a paid account whose plan has not expired)
LegacyBundle ==
    [stories |-> <<"s0">>, presets |-> <<>>,
     settings |-> [account |-> [userId |-> "u-old", username |-> "old",
                                tier |-> "pro", tierExpiresAt |-> Now + 1]],
     version |-> DATA_VERSION - 2]

\* a vault from before the settings object and the version tag existed
BareLegacyBundle == [stories |-> <<"s0">>, presets |-> <<>>]

\* a vault written by a newer version of the application
FutureBundle ==
    [stories |-> <<"s9">>, presets |-> <<>>, universes |-> <<>>,
     settings |-> [account |-> [userId |-> "u-new", username |-> "nova"]],
     version |-> DATA_VERSION + 1]

\* a vault of the current version whose account has a Weaver Key (passkey)
KeyBundle ==
    [stories |-> <<"s2">>, presets |-> <<>>, universes |-> <<>>,
     settings |-> [account |-> [initialAccount EXCEPT
                                  !.userId = "u-kim", !.username = "kim",
                                  !.signingKeyPair = [privateKey |-> "sk-kim", publicKey |-> "pk-kim"]]
                                @@ [passkeyCredentialId |-> "cred-kim"],
                   storage |-> [quickAccessVault |-> NullText]],
     version |-> DATA_VERSION]

ExternalBundles == {AliceBundle, LegacyBundle, BareLegacyBundle, FutureBundle, KeyBundle}

ExternalFiles == {encryptForFile(b, "CorrectHorse1", 0, 0) : b \in ExternalBundles}

\* ------------------------------------------------------------------------
\* State
\* ------------------------------------------------------------------------
VARIABLES
    view,            \* useState<View>
    stories,         \* useState<Story[]>
    universes,       \* useState<Universe[]>
    presets,         \* useState<GenerationPreset[]>
    settings,        \* useState<AppSettings>
    isLoading,       \* useState(false)
    error,           \* useState<string | null>
    modalContent,    \* useState<... | null>, with the values its buttons close over
    isGuest,         \* useState(false)
    isLegacyMode,    \* useState(false)
    sessionPassword, \* useRef<string | null>
    quickAccessMeta, \* useState<{username, passkeyCredentialId?} | null>
    recovery,        \* PasswordRecovery: step and answers
    passkeyVerified, \* LoginScreen: useState(false)
    localStorage,    \* window.localStorage: key -> text
    pending,         \* async handlers suspended at an await, with what they close over
    timers,          \* setTimeout callbacks not yet run
    disk,            \* the vault file the user brings to this device
    event,           \* what the last step did (history)
    now              \* new Date(): the instant, counted in hours

vars == <<view, stories, universes, presets, settings, isLoading, error, modalContent,
          isGuest, isLegacyMode, sessionPassword, quickAccessMeta, recovery,
          passkeyVerified, localStorage, pending, timers, disk, event, now>>

\* everything but the vault file and the history
appVars == <<view, stories, universes, presets, settings, isLoading, error, modalContent,
             isGuest, isLegacyMode, sessionPassword, quickAccessMeta, recovery,
             passkeyVerified, localStorage, pending, timers, now>>

\* everything but the vault file, the history and the clock
appVarsButNow == <<view, stories, universes, presets, settings, isLoading, error, modalContent,
                   isGuest, isLegacyMode, sessionPassword, quickAccessMeta, recovery,
                   passkeyVerified, localStorage, pending, timers>>

\* the in-memory session bundle
sessionVars == <<stories, universes, presets, settings, sessionPassword, isGuest,
                 isLegacyMode, view>>

\* device storage and what the login screen shows of it
deviceVars == <<localStorage, quickAccessMeta>>

getItem(key) == IF key \in DOMAIN localStorage THEN localStorage[key] ELSE NullText

setItem(key, value) == [k \in (DOMAIN localStorage) \cup {key} |->
                          IF k = key THEN value ELSE localStorage[k]]

removeItem(store, key) == [k \in (DOMAIN store) \ {key} |-> store[k]]

NoRecovery == [step |-> 0, answers |-> <<>>]

\* the application right after construction
InitApp ==
    /\ view = "login"
    /\ stories = <<>>
    /\ universes = <<>>
    /\ presets = <<>>
    /\ settings = initialSettings
    /\ isLoading = FALSE
    /\ error = NULL
    /\ modalContent = NoModal
    /\ isGuest = FALSE
    /\ isLegacyMode = FALSE
    /\ sessionPassword = NULL
    /\ quickAccessMeta = NullObj
    /\ recovery = NoRecovery
    /\ passkeyVerified = FALSE
    /\ localStorage = EmptyObj
    /\ pending = {}
    /\ timers = {}
    /\ now = Now

Init ==
    /\ InitApp
    /\ disk \in ExternalFiles
    /\ event = [op |-> "mount"]

\* Spinner and Modal are full-screen overlays: while either is shown the
\* page under it takes no clicks
UiFree == ~isLoading /\ modalContent = NoModal

\* no handler is suspended at an await: the user starts one operation at a
\* time, and waits while a picked file is being read
Idle == pending = {}

\* typing into a form takes longer than the 500 ms of the quick-access
\* offer's timer: by the time a form is filled in, the timer has run
\* (clicks may come before it)
TimersRun == timers = {}

\* a picked file is being read and nothing else is pending: the login forms
\* are still usable (handleFileLogin shows the spinner only once
\* decryptAndLoad starts)
ReadPending == pending # {} /\ \A op \in pending : op.kind = "fileRead"

hasQuickAccess == settings.storage.quickAccessVault # NullText

hasPasskey ==
    /\ hasQuickAccess
    /\ quickAccessMeta # NullObj
    /\ Get(quickAccessMeta, "passkeyCredentialId") # UNDEFINED

\* the header is rendered in these views only
showHeader == view \in {"home", "inspiration_board"}

\* LoginScreen keeps its own state while it is mounted, that is while the
\* view is login; when it is mounted again the state starts over
LoginScreenKept == passkeyVerified' = (passkeyVerified /\ view' = "login")

\* ------------------------------------------------------------------------
\* App.tsx: mount
\* ------------------------------------------------------------------------
\* The page is (re)loaded: every useState cell starts over, suspended
\* handlers and timers are gone, and the mount effect reads the quick-access
\* vault and the metadata back from localStorage.
Reload ==
    /\ view' = "login"
    /\ stories' = <<>>
    /\ universes' = <<>>
    /\ presets' = <<>>
    /\ settings' = [initialSettings EXCEPT !.storage.quickAccessVault = getItem("weaver_quick_access_vault")]
    /\ isLoading' = FALSE
    /\ error' = NULL
    /\ modalContent' = NoModal
    /\ isGuest' = FALSE
    /\ isLegacyMode' = FALSE
    /\ sessionPassword' = NULL
    /\ quickAccessMeta' = IF getItem("weaver_meta") # NullText
                          THEN JsonParse(getItem("weaver_meta")) ELSE NullObj
    /\ recovery' = NoRecovery
    /\ passkeyVerified' = FALSE
    /\ pending' = {}
    /\ timers' = {}
    /\ event' = [op |-> "mount"]
    /\ UNCHANGED <<localStorage, disk, now>>

\* ------------------------------------------------------------------------
\* App.tsx: loadDataBundle
\* ------------------------------------------------------------------------
\* reading loadedSettings.general of a bundle without settings is a TypeError
loadThrowsTypeError(bundle) == "settings" \notin DOMAIN bundle

mergedSettings(bundle, qav) ==
    LET loadedSettings == bundle.settings
        loadedAccount == IF "account" \in DOMAIN loadedSettings
                         THEN loadedSettings.account ELSE EmptyObj
        loadedGeneral == IF "general" \in DOMAIN loadedSettings
                         THEN loadedSettings.general ELSE EmptyObj
    IN  [general |-> Spread(initialSettings.general, loadedGeneral),
         account |-> Spread(initialSettings.account, loadedAccount),
         storage |-> [quickAccessVault |-> qav]]

\* faulty variant: the whole account is written as metadata
newMetaOf_WholeAccount(account) == account

\* newMeta of loadDataBundle
newMetaOf(account) ==
    [username |-> account.username,
     passkeyCredentialId |-> Get(account, "passkeyCredentialId")]

OrEmpty(bundle, key) == IF key \in DOMAIN bundle THEN bundle[key] ELSE <<>>

\* loadDataBundle(bundle, password), as run by a handler that closed over a
\* render in which settings.storage.quickAccessVault was qav.  storageOk:
\* whether localStorage.setItem accepts the write (it throws when the quota
\* is exceeded or storage is disabled).  The statements before the one that
\* throws have taken effect; viewOnThrow is the view the caller's catch
\* block leaves.
loadDataBundle(bundle, password, qav, storageOk, viewOnThrow) ==
    IF loadThrowsTypeError(bundle)
    THEN /\ view' = viewOnThrow
         /\ UNCHANGED <<stories, presets, universes, settings, sessionPassword,
                        quickAccessMeta, localStorage, isGuest>>
    ELSE /\ stories' = OrEmpty(bundle, "stories")
         /\ presets' = OrEmpty(bundle, "presets")
         /\ universes' = OrEmpty(bundle, "universes")
         /\ settings' = mergedSettings(bundle, qav)
         /\ sessionPassword' = password
         /\ quickAccessMeta' = newMetaOf(mergedSettings(bundle, qav).account)
         /\ IF storageOk
            THEN /\ localStorage' = setItem("weaver_meta",
                        JsonStringify(newMetaOf(mergedSettings(bundle, qav).account)))
                 /\ view' = "home"
                 /\ isGuest' = FALSE
            ELSE /\ view' = viewOnThrow
                 /\ UNCHANGED <<localStorage, isGuest>>

loadThrows(bundle, storageOk) == loadThrowsTypeError(bundle) \/ ~storageOk

loadErrorMessage(bundle) ==
    IF loadThrowsTypeError(bundle) THEN "TypeError" ELSE "QuotaExceededError"

\* ------------------------------------------------------------------------
\* LoginScreen and the login handlers
\* ------------------------------------------------------------------------
\* the files the user can pick, and the texts that can be pasted into the
\* sync box: the user's vault, whole or damaged in transit
Files == {disk, FlipByte(disk, SaltLen + IvLen + 1)}

\* handleFileLoginSubmit -> handleFileLogin, up to `await file.arrayBuffer()`
FileLoginSubmit ==
    /\ UNCHANGED <<disk, now>>
    /\ view = "login" /\ UiFree
    /\ Idle /\ TimersRun
    /\ \E password \in Passwords :
          pending' = pending \cup
              {[kind |-> "fileRead", password |-> password,
                qav |-> settings.storage.quickAccessVault]}
    /\ event' = [op |-> "handleFileLogin"]
    /\ UNCHANGED <<sessionVars, deviceVars, isLoading, error, modalContent, recovery,
                   timers>>
    /\ LoginScreenKept

\* file.arrayBuffer() resolves with the bytes of the picked file:
\* decryptAndLoad runs up to `await decryptFromFile`
FileReadDone ==
    /\ UNCHANGED <<disk, now>>
    /\ \E op \in pending, f \in Files :
        /\ op.kind = "fileRead"
        /\ isLoading' = TRUE
        /\ error' = NULL
        /\ pending' = (pending \ {op}) \cup
              {[kind |-> "decrypt", vaultBuffer |-> f, password |-> op.password,
                qav |-> op.qav, via |-> "file"]}
        /\ event' = [op |-> "decryptAndLoad", outcome |-> "started"]
        /\ UNCHANGED <<sessionVars, deviceVars, modalContent, recovery, timers>>
    /\ LoginScreenKept

\* faulty variant: the missing cache is reported as a failed decryption
NoQuickAccess_AsDecryptionFailure == DecryptionFailed

NoQuickAccess == "El Acceso Rapido no esta activado en este dispositivo."

PasskeyFailed == "La verificacion de la Weaver Key fallo. Intentalo de nuevo."

\* handleUnlockWithPasskey: the button of the passkey tab, shown until the
\* key is verified; getPasskey resolves to whether the platform produced a
\* credential (its dialog is modal: nothing else happens meanwhile)
PasskeyUnlock ==
    /\ UNCHANGED <<disk, now>>
    /\ view = "login" /\ UiFree
    /\ hasPasskey /\ ~passkeyVerified
    /\ Idle
    /\ \E success \in BOOLEAN :
          /\ passkeyVerified' = success
          /\ event' = [op |-> "handleUnlockWithPasskey",
                       outcome |-> IF success THEN "verified" ELSE "failed"]
    /\ UNCHANGED <<sessionVars, deviceVars, isLoading, error, modalContent, recovery,
                   pending, timers>>

\* handleQuickAccessLogin(password), up to `await decryptFromFile`
handleQuickAccessLogin(password) ==
    IF settings.storage.quickAccessVault = NullText
    THEN /\ error' = NoQuickAccess
         /\ event' = [op |-> "handleQuickAccessLogin", outcome |-> "noCache"]
         /\ UNCHANGED <<isLoading, pending>>
    ELSE /\ isLoading' = TRUE
         /\ error' = NULL
         /\ pending' = pending \cup
               {[kind |-> "decrypt",
                 vaultBuffer |-> base64ToArrayBuffer(settings.storage.quickAccessVault),
                 password |-> password,
                 qav |-> settings.storage.quickAccessVault,
                 via |-> IF hasPasskey THEN "passkey" ELSE "quick"]}
         /\ event' = [op |-> "decryptAndLoad", outcome |-> "started"]

\* handleQuickAccessSubmit (the form is rendered by the quick tab, which
\* exists while a vault is cached and no passkey is recorded, and by the
\* passkey tab once the key is verified)
QuickAccessSubmit ==
    /\ UNCHANGED <<disk, now>>
    /\ view = "login" /\ UiFree
    /\ hasQuickAccess /\ (hasPasskey => passkeyVerified)
    /\ Idle /\ TimersRun
    /\ \E password \in Passwords : handleQuickAccessLogin(password)
    /\ UNCHANGED <<sessionVars, deviceVars, modalContent, recovery, timers>>
    /\ LoginScreenKept

\* handleQuickAccessLogin called at the login view whatever the tabs show:
\* the handler as an operation of its own, with or without a cached vault
QuickAccessLoginCall ==
    /\ UNCHANGED <<disk, now>>
    /\ view = "login" /\ UiFree
    /\ Idle /\ TimersRun
    /\ \E password \in Passwords : handleQuickAccessLogin(password)
    /\ UNCHANGED <<sessionVars, deviceVars, modalContent, recovery, timers>>
    /\ LoginScreenKept

Garbage == [garbage |-> TRUE]

\* what can be pasted into the sync box
SyncTexts == {arrayBufferToBase64(f) : f \in Files} \cup {Garbage}

InvalidSyncData == "Los datos de la boveda pegados no son validos o estan corruptos."

\* handleSyncSubmit -> handleSyncLogin, up to `await decryptFromFile`;
\* `quiet` is what the schedule asks of the operations already pending
SyncSubmitWhen(quiet) ==
    /\ UNCHANGED <<disk, now>>
    /\ view = "login" /\ UiFree
    /\ quiet /\ TimersRun
    /\ \E vaultData \in SyncTexts, password \in Passwords :
          IF ~IsBase64(vaultData)
          THEN /\ error' = InvalidSyncData
               /\ event' = [op |-> "handleSyncLogin", outcome |-> "invalidData"]
               /\ UNCHANGED <<isLoading, pending>>
          ELSE /\ isLoading' = TRUE
               /\ error' = NULL
               /\ pending' = pending \cup
                     {[kind |-> "decrypt", vaultBuffer |-> base64ToArrayBuffer(vaultData),
                       password |-> password,
                       qav |-> settings.storage.quickAccessVault, via |-> "sync"]}
               /\ event' = [op |-> "decryptAndLoad", outcome |-> "started",
                            text |-> vaultData]
    /\ UNCHANGED <<sessionVars, deviceVars, modalContent, recovery, timers>>
    /\ LoginScreenKept

\* the sync form submitted while nothing is pending
SyncSubmit == SyncSubmitWhen(Idle)

\* the sync form submitted while a picked file is still being read
SyncSubmitOverRead == SyncSubmitWhen(ReadPending)

\* what someone with access to the device can put in place of the stored
\* metadata record
ForgedMetas ==
    {[username |-> "mallory"], [username |-> "kim", passkeyCredentialId |-> "cred-x"]}

\* localStorage is not protected: the metadata record of a logged-out
\* device is rewritten from outside the application
MetaForged ==
    /\ view = "login" /\ sessionPassword = NULL
    /\ Idle /\ TimersRun /\ UiFree
    /\ "weaver_meta" \in DOMAIN localStorage
    /\ \E meta \in ForgedMetas :
          /\ getItem("weaver_meta") # JsonStringify(meta)
          /\ localStorage' = setItem("weaver_meta", JsonStringify(meta))
    /\ event' = [op |-> "metaForged"]
    /\ UNCHANGED <<sessionVars, quickAccessMeta, isLoading, error, modalContent, recovery,
                   passkeyVerified, pending, timers, disk, now>>

\* handleGuestLogin (the button takes clicks while a picked file is still
\* being read: handleFileLogin shows no spinner before decryptAndLoad)
GuestLogin ==
    /\ UNCHANGED <<disk, now>>
    /\ view = "login" /\ UiFree
    /\ settings' = initialSettings
    /\ stories' = <<>>
    /\ presets' = <<>>
    /\ isGuest' = TRUE
    /\ view' = "home"
    /\ event' = [op |-> "handleGuestLogin"]
    /\ UNCHANGED <<universes, sessionPassword, isLegacyMode, deviceVars, isLoading, error,
                   modalContent, recovery, pending, timers>>
    /\ LoginScreenKept

\* ------------------------------------------------------------------------
\* App.tsx: decryptAndLoad after the await, and the modals it opens
\* ------------------------------------------------------------------------
\* faulty variant: the version test is left out
isOldVersion_Never(bundle) == FALSE

\* !bundle.version || bundle.version < DATA_VERSION
isOldVersion(bundle) ==
    \/ "version" \notin DOMAIN bundle
    \/ bundle.version = 0
    \/ bundle.version < DATA_VERSION

DecryptDone ==
    /\ UNCHANGED <<disk, now>>
    /\ \E op \in pending, storageOk \in BOOLEAN :
        /\ op.kind = "decrypt"
        /\ pending' = pending \ {op}
        /\ LET r == decryptFromFile(op.vaultBuffer, op.password) IN
           IF ~r.ok
           THEN \* catch (err)
                /\ error' = r.error
                /\ isLoading' = FALSE
                /\ event' = [op |-> "decryptAndLoad", outcome |-> "decryptFailed", via |-> op.via]
                /\ UNCHANGED <<sessionVars, deviceVars, modalContent, timers>>
           ELSE IF isOldVersion(r.bundle)
           THEN /\ modalContent' = [kind |-> "legacy", bundle |-> r.bundle,
                                    password |-> op.password, qav |-> op.qav,
                                    via |-> op.via]
                /\ event' = [op |-> "decryptAndLoad", outcome |-> "legacyPrompt", via |-> op.via]
                /\ UNCHANGED <<sessionVars, deviceVars, isLoading, error, timers>>
           ELSE /\ isLegacyMode' = FALSE
                /\ loadDataBundle(r.bundle, op.password, op.qav, storageOk, view)
                /\ isLoading' = FALSE
                /\ IF loadThrows(r.bundle, storageOk)
                   THEN \* catch (err)
                        /\ error' = loadErrorMessage(r.bundle)
                        /\ event' = [op |-> "decryptAndLoad", outcome |-> "loadFailed", via |-> op.via]
                        /\ UNCHANGED timers
                   ELSE /\ timers' = IF op.qav = NullText
                                     THEN timers \cup {[vaultBuffer |-> op.vaultBuffer]}
                                     ELSE timers
                        /\ event' = [op |-> "decryptAndLoad", outcome |-> "loaded", via |-> op.via]
                        /\ UNCHANGED error
                /\ UNCHANGED modalContent
        /\ UNCHANGED <<recovery>>
    /\ LoginScreenKept

\* "Cancelar" or the close button of the old-version modal
LegacyCancel ==
    /\ UNCHANGED <<disk, now>>
    /\ modalContent.kind = "legacy"
    /\ modalContent' = NoModal
    /\ isLoading' = FALSE
    /\ event' = [op |-> "legacyModal", outcome |-> "declined", via |-> modalContent.via]
    /\ UNCHANGED <<sessionVars, deviceVars, error, recovery, pending, timers>>
    /\ LoginScreenKept

\* "Continuar (Modo Limitado)": an onClick handler, outside any try block
LegacyContinue ==
    /\ UNCHANGED <<disk, now>>
    /\ \E storageOk \in BOOLEAN :
        /\ modalContent.kind = "legacy"
        /\ modalContent' = NoModal
        /\ isLegacyMode' = TRUE
        /\ loadDataBundle(modalContent.bundle, modalContent.password, modalContent.qav,
                          storageOk, view)
        /\ IF loadThrows(modalContent.bundle, storageOk)
           THEN \* the exception leaves the handler: the rest does not run
                /\ event' = [op |-> "legacyModal", outcome |-> "loadFailed", via |-> modalContent.via]
                /\ UNCHANGED isLoading
           ELSE /\ isLoading' = FALSE
                /\ event' = [op |-> "legacyModal", outcome |-> "loaded", via |-> modalContent.via]
        /\ UNCHANGED <<error, recovery, pending, timers>>
    /\ LoginScreenKept

\* the 500 ms timer of decryptAndLoad runs: the quick-access offer opens
OfferTimerFire ==
    /\ UNCHANGED <<disk, now>>
    /\ \E t \in timers :
        /\ timers' = timers \ {t}
        /\ modalContent' = [kind |-> "quickAccessOffer", vaultBuffer |-> t.vaultBuffer]
        /\ event' = [op |-> "quickAccessOffer", outcome |-> "shown"]
        /\ UNCHANGED <<sessionVars, deviceVars, isLoading, error, recovery, pending>>
    /\ LoginScreenKept

\* "No, gracias" or the close button
OfferDecline ==
    /\ UNCHANGED <<disk, now>>
    /\ modalContent.kind = "quickAccessOffer"
    /\ modalContent' = NoModal
    /\ event' = [op |-> "quickAccessOffer", outcome |-> "declined"]
    /\ UNCHANGED <<sessionVars, deviceVars, isLoading, error, recovery, pending, timers>>
    /\ LoginScreenKept

\* faulty variant: the cached text lacks the last byte of the vault
OfferAccept_DropsLastByte ==
    /\ UNCHANGED <<disk, now>>
    /\ \E storageOk \in BOOLEAN :
        /\ modalContent.kind = "quickAccessOffer"
        /\ LET vaultBase64 == arrayBufferToBase64(SubSeq(modalContent.vaultBuffer, 1,
                                                      Len(modalContent.vaultBuffer) - 1)) IN
           IF storageOk
           THEN /\ localStorage' = setItem("weaver_quick_access_vault", vaultBase64)
                /\ settings' = [settings EXCEPT !.storage.quickAccessVault = vaultBase64]
                /\ modalContent' = NoModal
                /\ event' = [op |-> "quickAccessOffer", outcome |-> "accepted"]
           ELSE /\ event' = [op |-> "quickAccessOffer", outcome |-> "storageFailed"]
                /\ UNCHANGED <<localStorage, settings, modalContent>>
        /\ UNCHANGED <<view, stories, universes, presets, isLoading, error, isGuest, isLegacyMode,
                       sessionPassword, quickAccessMeta, recovery, pending, timers>>
    /\ LoginScreenKept

\* "Activar"
OfferAccept ==
    /\ UNCHANGED <<disk, now>>
    /\ \E storageOk \in BOOLEAN :
        /\ modalContent.kind = "quickAccessOffer"
        /\ LET vaultBase64 == arrayBufferToBase64(modalContent.vaultBuffer) IN
           IF storageOk
           THEN /\ localStorage' = setItem("weaver_quick_access_vault", vaultBase64)
                /\ settings' = [settings EXCEPT !.storage.quickAccessVault = vaultBase64]
                /\ modalContent' = NoModal
                /\ event' = [op |-> "quickAccessOffer", outcome |-> "accepted"]
           ELSE /\ event' = [op |-> "quickAccessOffer", outcome |-> "storageFailed"]
                /\ UNCHANGED <<localStorage, settings, modalContent>>
        /\ UNCHANGED <<view, stories, universes, presets, isLoading, error, isGuest, isLegacyMode,
                       sessionPassword, quickAccessMeta, recovery, pending, timers>>
    /\ LoginScreenKept

\* ------------------------------------------------------------------------
\* App.tsx: handleSaveBackup
\* ------------------------------------------------------------------------
currentBundle ==
    [stories |-> stories, presets |-> presets, universes |-> universes,
     settings |-> settings, version |-> DATA_VERSION]

\* the plaintext bundle of a sealed buffer (the model can look inside)
PlainBundle(buf) == JsonParse(TextDecode(buf[SaltLen + IvLen + 1].of))

RECURSIVE Nesting(_)
Nesting(text) ==
    IF ~IsBase64(text) THEN 0
    ELSE LET b == PlainBundle(base64ToArrayBuffer(text)) IN
         IF "settings" \in DOMAIN b /\ "storage" \in DOMAIN b.settings
         THEN 1 + Nesting(b.settings.storage.quickAccessVault)
         ELSE 1

\* UserMenu "Guardar Copia de Seguridad": handleSaveBackup(false) up to
\* `await encryptForFile`
SaveBackupClick ==
    /\ UNCHANGED <<disk, now>>
    /\ showHeader /\ ~isGuest /\ UiFree
    /\ Idle
    /\ IF sessionPassword = NULL
       THEN /\ event' = [op |-> "handleSaveBackup", outcome |-> "noPassword"]
            /\ UNCHANGED <<isLoading, pending>>
       ELSE /\ isLoading' = TRUE
            /\ pending' = pending \cup
                  {[kind |-> "backupSeal", bundle |-> currentBundle,
                    password |-> sessionPassword, isFirstBackup |-> FALSE]}
            /\ event' = [op |-> "handleSaveBackup", outcome |-> "started"]
    /\ UNCHANGED <<sessionVars, deviceVars, error, modalContent, recovery, timers>>
    /\ LoginScreenKept

BackupFailed == "No se pudo crear la copia de seguridad."

\* handleSaveBackup after the await
BackupSealDone ==
    /\ UNCHANGED <<disk, now>>
    /\ \E op \in pending, sealOk \in BOOLEAN :
        /\ op.kind = "backupSeal"
        /\ pending' = pending \ {op}
        /\ isLoading' = FALSE
        /\ IF sealOk
           THEN \* link.click(): the sealed bundle leaves the application as a
                \* download; nothing of it stays in the application's state
                /\ modalContent' = IF op.isFirstBackup THEN [kind |-> "firstBackup"]
                                                       ELSE modalContent
                /\ event' = [op |-> "handleSaveBackup", outcome |-> "saved"]
                /\ UNCHANGED error
           ELSE /\ error' = BackupFailed
                /\ event' = [op |-> "handleSaveBackup", outcome |-> "failed"]
                /\ UNCHANGED modalContent
        /\ UNCHANGED <<sessionVars, deviceVars, recovery, timers>>
    /\ LoginScreenKept

\* "Entendido" or the close button of the first-backup modal
FirstBackupClose ==
    /\ UNCHANGED <<disk, now>>
    /\ modalContent.kind = "firstBackup"
    /\ modalContent' = NoModal
    /\ event' = [op |-> "navigate"]
    /\ UNCHANGED <<sessionVars, deviceVars, isLoading, error, recovery, pending, timers>>
    /\ LoginScreenKept

\* ------------------------------------------------------------------------
\* App.tsx: handleCompleteOnboarding
\* ------------------------------------------------------------------------
\* what the onboarding form hands over
OnboardingInputs ==
    {[username |-> "bob", securityQuestions |-> <<[question |-> "pet", answer |-> Rex]>>],
     [username |-> "bea", securityQuestions |-> <<[question |-> "pet", answer |-> RexTyped]>>]}

OnboardingPasswords == {"CorrectHorse1"}

UserIds == {"u-1"}

\* "Crear Nueva Cuenta Segura" on the login screen, "Crear Cuenta
\* Permanente" in the guest header, "Crea una cuenta" in the guest banner
StartOnboarding ==
    /\ UNCHANGED <<disk, now>>
    /\ UiFree
    /\ Idle
    /\ view = "login" \/ (isGuest /\ view = "home")
    /\ view' = "onboarding"
    /\ event' = [op |-> "navigate"]
    /\ UNCHANGED <<stories, universes, presets, settings, sessionPassword, isGuest, isLegacyMode,
                   deviceVars, isLoading, error, modalContent, recovery, pending, timers>>
    /\ LoginScreenKept

\* Onboarding.onComplete -> handleCompleteOnboarding, up to its first await
OnboardingSubmit ==
    /\ UNCHANGED <<disk, now>>
    /\ view = "onboarding" /\ UiFree
    /\ Idle /\ TimersRun
    /\ \E onboardingData \in OnboardingInputs, password \in OnboardingPasswords :
          pending' = pending \cup
              {[kind |-> "onboarding", onboardingData |-> onboardingData, password |-> password,
                qav |-> settings.storage.quickAccessVault]}
    /\ isLoading' = TRUE
    /\ event' = [op |-> "handleCompleteOnboarding", outcome |-> "started"]
    /\ UNCHANGED <<sessionVars, deviceVars, error, modalContent, recovery, timers>>
    /\ LoginScreenKept

\* faulty variant: the typed answer is kept next to its hash
hashedSecurityQuestions_KeepsAnswer(qs) ==
    [i \in 1..Len(qs) |-> [question |-> qs[i].question, answer |-> qs[i].answer,
                           answerHash |-> hashText(qs[i].answer)]]

hashedSecurityQuestions(qs) ==
    [i \in 1..Len(qs) |-> [question |-> qs[i].question, answerHash |-> hashText(qs[i].answer)]]

finalAccountSettings(onboardingData, userId) ==
    [Spread(initialSettings.account, onboardingData) EXCEPT
        !.userId = userId,
        !.securityQuestions = hashedSecurityQuestions(onboardingData.securityQuestions),
        !.signingKeyPair = [privateKey |-> "sk-" \o userId, publicKey |-> "pk-" \o userId]]

onboardingBundle(onboardingData, userId) ==
    [stories |-> <<>>, presets |-> <<>>, universes |-> <<>>,
     settings |-> [initialSettings EXCEPT !.account = finalAccountSettings(onboardingData, userId)],
     version |-> DATA_VERSION]

CreateFailed == "No se pudo crear la cuenta encriptada."

\* keys and hashes are ready: the bundle is built and loaded, then
\* handleSaveBackup(true, bundle) runs up to `await encryptForFile`
OnboardingReady ==
    /\ UNCHANGED <<disk, now>>
    /\ \E op \in pending, userId \in UserIds, storageOk \in BOOLEAN :
        /\ op.kind = "onboarding"
        /\ LET bundle == onboardingBundle(op.onboardingData, userId) IN
           /\ loadDataBundle(bundle, op.password, op.qav, storageOk, "onboarding")
           /\ IF loadThrows(bundle, storageOk)
              THEN \* catch (err) ... finally
                   /\ error' = CreateFailed
                   /\ isLoading' = FALSE
                   /\ pending' = pending \ {op}
                   /\ event' = [op |-> "handleCompleteOnboarding", outcome |-> "failed"]
              ELSE /\ isLoading' = TRUE
                   /\ pending' = (pending \ {op}) \cup
                         {[kind |-> "backupSeal", bundle |-> bundle, password |-> op.password,
                           isFirstBackup |-> TRUE]}
                   /\ event' = [op |-> "handleCompleteOnboarding", outcome |-> "loaded"]
                   /\ UNCHANGED error
        /\ UNCHANGED <<isLegacyMode, modalContent, recovery, timers>>
    /\ LoginScreenKept

\* ------------------------------------------------------------------------
\* App.tsx: handleLogout
\* ------------------------------------------------------------------------
\* UserMenu "Cerrar Sesion"
LogoutClick ==
    /\ UNCHANGED <<disk, now>>
    /\ showHeader /\ ~isGuest /\ UiFree
    /\ modalContent' = [kind |-> "logout"]
    /\ event' = [op |-> "handleLogout", outcome |-> "asked"]
    /\ UNCHANGED <<sessionVars, deviceVars, isLoading, error, recovery, pending, timers>>
    /\ LoginScreenKept

LogoutCancel ==
    /\ UNCHANGED <<disk, now>>
    /\ modalContent.kind = "logout"
    /\ modalContent' = NoModal
    /\ event' = [op |-> "handleLogout", outcome |-> "cancelled"]
    /\ UNCHANGED <<sessionVars, deviceVars, isLoading, error, recovery, pending, timers>>
    /\ LoginScreenKept

LogoutConfirm ==
    /\ UNCHANGED <<disk, now>>
    /\ modalContent.kind = "logout"
    /\ stories' = <<>>
    /\ presets' = <<>>
    /\ universes' = <<>>
    /\ error' = NULL
    /\ settings' = initialSettings
    /\ sessionPassword' = NULL
    /\ isGuest' = FALSE
    /\ isLegacyMode' = FALSE
    /\ localStorage' = removeItem(removeItem(localStorage, "weaver_quick_access_vault"), "weaver_meta")
    /\ quickAccessMeta' = NullObj
    /\ view' = "login"
    /\ modalContent' = NoModal
    /\ event' = [op |-> "handleLogout", outcome |-> "confirmed"]
    /\ UNCHANGED <<isLoading, recovery, pending, timers>>
    /\ LoginScreenKept

\* ------------------------------------------------------------------------
\* App.tsx: PasswordRecovery and handlePasswordRecovery
\* ------------------------------------------------------------------------
\* "Olvidaste tu contrasena?" in the quick-access form
PasswordRecoveryClick ==
    /\ UNCHANGED <<disk, now>>
    /\ view = "login" /\ UiFree
    /\ Idle
    /\ hasQuickAccess /\ ~hasPasskey
    /\ view' = "password_recovery"
    /\ recovery' = [step |-> 0,
                    answers |-> [i \in 1..Len(settings.account.securityQuestions) |-> Blank]]
    /\ event' = [op |-> "navigate"]
    /\ UNCHANGED <<stories, universes, presets, settings, sessionPassword, isGuest, isLegacyMode,
                   deviceVars, isLoading, error, modalContent, pending, timers>>
    /\ LoginScreenKept

recoveryConfigured == settings.account.securityQuestions # <<>>

\* "Volver al inicio" (step 0) or "Volver" (recovery not configured)
RecoveryBack ==
    /\ UNCHANGED <<disk, now>>
    /\ view = "password_recovery" /\ UiFree
    /\ ~recoveryConfigured \/ recovery.step = 0
    /\ view' = "login"
    /\ recovery' = NoRecovery
    /\ event' = [op |-> "navigate"]
    /\ UNCHANGED <<stories, universes, presets, settings, sessionPassword, isGuest, isLegacyMode,
                   deviceVars, isLoading, error, modalContent, pending, timers>>
    /\ LoginScreenKept

\* "Aun no la recuerdo"
RecoverySkipHint ==
    /\ UNCHANGED <<disk, now>>
    /\ view = "password_recovery" /\ UiFree
    /\ recoveryConfigured /\ recovery.step = 0
    /\ recovery' = [recovery EXCEPT !.step = 1]
    /\ event' = [op |-> "navigate"]
    /\ UNCHANGED <<sessionVars, deviceVars, isLoading, error, modalContent, pending, timers>>
    /\ LoginScreenKept

\* handleAnswerChange
RecoveryAnswerChange ==
    /\ UNCHANGED <<disk, now>>
    /\ view = "password_recovery" /\ UiFree
    /\ recoveryConfigured /\ recovery.step = 1
    /\ TimersRun
    /\ \E index \in 1..Len(settings.account.securityQuestions), value \in Answers :
          recovery' = [recovery EXCEPT !.answers =
                          [i \in (DOMAIN recovery.answers) \cup {index} |->
                              IF i = index THEN value ELSE recovery.answers[i]]]
    /\ event' = [op |-> "navigate"]
    /\ UNCHANGED <<sessionVars, deviceVars, isLoading, error, modalContent, pending, timers>>
    /\ LoginScreenKept

\* faulty variant: the answers are not compared
firstMismatch_None(answers, questionData, i) == 0

\* index of the first answer whose hash differs from the stored one, 0 if none
RECURSIVE firstMismatch(_, _, _)
firstMismatch(answers, questionData, i) ==
    IF i > Len(answers) THEN 0
    ELSE IF hashText(answers[i]) # questionData[i].answerHash THEN i
    ELSE firstMismatch(answers, questionData, i + 1)

\* verifyAnswers
RecoveryVerify ==
    /\ UNCHANGED <<disk, now>>
    /\ view = "password_recovery" /\ UiFree
    /\ recoveryConfigured /\ recovery.step = 1
    /\ LET questionData == settings.account.securityQuestions IN
       IF Len(recovery.answers) # Len(questionData)
       THEN /\ event' = [op |-> "verifyAnswers", outcome |-> "lengthMismatch"]
            /\ UNCHANGED recovery
       ELSE IF firstMismatch(recovery.answers, questionData, 1) # 0
       THEN /\ event' = [op |-> "verifyAnswers", outcome |-> "rejected",
                         alert |-> "Una o mas respuestas son incorrectas."]
            /\ UNCHANGED recovery
       ELSE /\ recovery' = [recovery EXCEPT !.step = 2]
            /\ event' = [op |-> "verifyAnswers", outcome |-> "accepted"]
    /\ UNCHANGED <<sessionVars, deviceVars, isLoading, error, modalContent, pending, timers>>
    /\ LoginScreenKept

\* "Guardar Nueva Contrasena" -> handlePasswordRecovery up to `await encryptForFile`
RecoverySubmit ==
    /\ UNCHANGED <<disk, now>>
    /\ view = "password_recovery" /\ UiFree
    /\ recoveryConfigured /\ recovery.step = 2
    /\ Idle /\ TimersRun
    /\ Nesting(settings.storage.quickAccessVault) <= MaxNesting
    /\ \E newPassword \in NewPasswords, confirmPassword \in NewPasswords :
          /\ ~(Len(newPassword) < MinPasswordLen \/ newPassword # confirmPassword)
          /\ pending' = pending \cup
                {[kind |-> "resetSeal", bundle |-> currentBundle, newPassword |-> newPassword]}
    /\ isLoading' = TRUE
    /\ event' = [op |-> "handlePasswordRecovery", outcome |-> "started"]
    /\ UNCHANGED <<sessionVars, deviceVars, error, modalContent, recovery, timers>>
    /\ LoginScreenKept

ResetFailed == "No se pudo re-encriptar la boveda."

\* faulty variant: the bundle is sealed under the password of the session
resealedVault_SessionPassword(bundle, newPassword, saltDraw, ivDraw) ==
    arrayBufferToBase64(encryptForFile(bundle, sessionPassword, saltDraw, ivDraw))

\* arrayBufferToBase64(await encryptForFile(bundle, newPassword))
resealedVault(bundle, newPassword, saltDraw, ivDraw) ==
    arrayBufferToBase64(encryptForFile(bundle, newPassword, saltDraw, ivDraw))

\* handlePasswordRecovery after the await
ResetSealDone ==
    /\ UNCHANGED <<disk, now>>
    /\ \E op \in pending, saltDraw \in ResealNonces, ivDraw \in ResealNonces,
       sealOk \in BOOLEAN, storageOk \in BOOLEAN :
        /\ op.kind = "resetSeal"
        /\ pending' = pending \ {op}
        /\ isLoading' = FALSE
        /\ LET vaultBase64 == resealedVault(op.bundle, op.newPassword, saltDraw, ivDraw) IN
           IF sealOk /\ storageOk
           THEN /\ localStorage' = setItem("weaver_quick_access_vault", vaultBase64)
                /\ settings' = [settings EXCEPT !.storage.quickAccessVault = vaultBase64]
                /\ sessionPassword' = op.newPassword
                /\ view' = "home"
                /\ recovery' = NoRecovery    \* PasswordRecovery is unmounted
                /\ event' = [op |-> "handlePasswordRecovery", outcome |-> "done"]
                /\ UNCHANGED error
           ELSE \* catch (e)
                /\ error' = ResetFailed
                /\ event' = [op |-> "handlePasswordRecovery", outcome |-> "failed"]
                /\ UNCHANGED <<localStorage, settings, sessionPassword, view, recovery>>
        /\ UNCHANGED <<stories, universes, presets, isGuest, isLegacyMode, quickAccessMeta,
                       modalContent, timers>>
    /\ LoginScreenKept

\* ------------------------------------------------------------------------
\* App.tsx: handleUpdateSettings / handleUpdateAccountSettings
\* ------------------------------------------------------------------------
\* handleUpdateAccountSettings(updates): the account is replaced, the
\* metadata is rebuilt from it and written; when setItem throws, the state
\* updates before it have been made
handleUpdateAccountSettings(updates, storageOk) ==
    LET account == Spread(settings.account, updates)
        newMeta == [username |-> IF account.username # "" THEN account.username
                                 ELSE settings.account.username,
                    passkeyCredentialId |->
                        IF Get(account, "passkeyCredentialId") # UNDEFINED
                        THEN account.passkeyCredentialId
                        ELSE Get(settings.account, "passkeyCredentialId")]
    IN  /\ settings' = [settings EXCEPT !.account = account]
        /\ quickAccessMeta' = newMeta
        /\ localStorage' = IF storageOk THEN setItem("weaver_meta", JsonStringify(newMeta))
                                        ELSE localStorage

\* header button "Weaverins Hub" (disabled in compatibility mode)
OpenWeaverinsHub ==
    /\ UNCHANGED <<disk, now>>
    /\ showHeader /\ ~isGuest /\ UiFree
    /\ ~isLegacyMode
    /\ view' = "weaverins_hub"
    /\ event' = [op |-> "navigate"]
    /\ UNCHANGED <<stories, universes, presets, settings, sessionPassword, isGuest, isLegacyMode,
                   deviceVars, isLoading, error, modalContent, recovery, pending, timers>>
    /\ LoginScreenKept

\* WeaverinsHub: the "Modo Tacano" toggle
ToggleStingyMode ==
    /\ UNCHANGED <<disk, now>>
    /\ \E storageOk \in BOOLEAN :
        /\ view = "weaverins_hub" /\ UiFree
        /\ handleUpdateAccountSettings([stingyMode |-> ~settings.account.stingyMode], storageOk)
        /\ event' = [op |-> "handleUpdateAccountSettings"]
        /\ UNCHANGED <<view, stories, universes, presets, sessionPassword, isGuest, isLegacyMode,
                       isLoading, error, modalContent, recovery, pending, timers>>
    /\ LoginScreenKept

\* WeaverinsHub.onBack, or the header logo
GoHome ==
    /\ UNCHANGED <<disk, now>>
    /\ view \in {"weaverins_hub", "inspiration_board"} /\ UiFree
    /\ view' = "home"
    /\ event' = [op |-> "navigate"]
    /\ UNCHANGED <<stories, universes, presets, settings, sessionPassword, isGuest, isLegacyMode,
                   deviceVars, isLoading, error, modalContent, recovery, pending, timers>>
    /\ LoginScreenKept

\* ------------------------------------------------------------------------
\* InspirationBoard: the disclaimer
\* ------------------------------------------------------------------------
\* header button "Crear"
OpenInspirationBoard ==
    /\ UNCHANGED <<disk, now>>
    /\ showHeader /\ ~isGuest /\ UiFree
    /\ view' = "inspiration_board"
    /\ error' = NULL
    /\ event' = [op |-> "navigate"]
    /\ UNCHANGED <<stories, universes, presets, settings, sessionPassword, isGuest, isLegacyMode,
                   deviceVars, isLoading, modalContent, recovery, pending, timers>>
    /\ LoginScreenKept

\* handleAcceptDisclaimer (the button is shown until the flag is stored)
AcceptDisclaimer ==
    /\ UNCHANGED <<disk, now>>
    /\ view = "inspiration_board" /\ UiFree
    /\ getItem("weaver_disclaimer_accepted") = NullText
    /\ \E storageOk \in BOOLEAN :
          localStorage' = IF storageOk
                          THEN setItem("weaver_disclaimer_accepted", [str |-> "true"])
                          ELSE localStorage
    /\ event' = [op |-> "handleAcceptDisclaimer"]
    /\ UNCHANGED <<sessionVars, quickAccessMeta, isLoading, error, modalContent, recovery,
                   pending, timers>>
    /\ LoginScreenKept

\* ------------------------------------------------------------------------
\* Specification
\* ------------------------------------------------------------------------
\* ------------------------------------------------------------------------
\* Features of a session: profile and writer rank, settings and Weaver Key,
\* the universe hub
\* ------------------------------------------------------------------------
\* App.tsx isKidsMode
isKidsMode == settings.general.uiMode = "kids"

\* App.tsx effectiveTier
effectiveTier ==
    IF isGuest THEN "free"
    ELSE IF isKidsMode THEN "essentials"
    ELSE IF settings.account.tier = "free" THEN "free"
    ELSE IF settings.account.tierExpiresAt # 0 /\ settings.account.tierExpiresAt > now
         THEN settings.account.tier
    ELSE "free"

\* ProfilePage: 10 points per story (the model's stories have no readers and
\* no reviews, and no quest is completed)
totalPoints == 10 * Len(stories)

calculateRank(points) ==
    IF points >= 5000 THEN "S+"
    ELSE IF points >= 2500 THEN "S"
    ELSE IF points >= 1000 THEN "A"
    ELSE IF points >= 250 THEN "B"
    ELSE "C"

\* UserMenu "Mi Perfil", or Settings.onBack: the profile page is rendered
\* and its effect stores the rank computed from the session's stories when
\* it differs from the stored one
OpenProfile ==
    /\ UNCHANGED <<disk, now>>
    /\ ((showHeader /\ ~isGuest) \/ view = "settings") /\ UiFree
    /\ Idle /\ TimersRun
    /\ view' = "profile"
    /\ \E storageOk \in BOOLEAN :
          IF \/ calculateRank(totalPoints) # settings.account.writerRank
             \/ totalPoints # settings.account.rankPoints
          THEN /\ handleUpdateAccountSettings(
                     [writerRank |-> calculateRank(totalPoints), rankPoints |-> totalPoints],
                     storageOk)
               /\ event' = [op |-> "updateRank"]
          ELSE /\ event' = [op |-> "navigate"]
               /\ UNCHANGED <<settings, deviceVars>>
    /\ UNCHANGED <<stories, universes, presets, sessionPassword, isGuest, isLegacyMode,
                   isLoading, error, modalContent, recovery, pending, timers>>
    /\ LoginScreenKept

\* ProfilePage "Ajustes de la cuenta", or UserMenu "Ajustes"
OpenSettings ==
    /\ UNCHANGED <<disk, now>>
    /\ (view = "profile" \/ (showHeader /\ ~isGuest)) /\ UiFree
    /\ Idle /\ TimersRun
    /\ view' = "settings"
    /\ event' = [op |-> "navigate"]
    /\ UNCHANGED <<stories, universes, presets, settings, sessionPassword, isGuest, isLegacyMode,
                   deviceVars, isLoading, error, modalContent, recovery, pending, timers>>
    /\ LoginScreenKept

NewCredentialId == "cred-new"

\* Settings.handleCreatePasskey: the button of the security tab, shown while
\* the account has no Weaver Key and enabled from the essentials tier up;
\* createPasskey resolves or throws as the platform decides; a setItem that
\* throws inside onUpdateAccountSettings lands in the same catch, after the
\* state updates were made
CreatePasskey ==
    /\ UNCHANGED <<disk, now>>
    /\ view = "settings" /\ UiFree
    /\ Get(settings.account, "passkeyCredentialId") = UNDEFINED
    /\ effectiveTier # "free"
    /\ \E created \in BOOLEAN, storageOk \in BOOLEAN :
          IF created
          THEN /\ handleUpdateAccountSettings(
                     [passkeyCredentialId |-> NewCredentialId], storageOk)
               /\ event' = [op |-> "handleCreatePasskey",
                            outcome |-> IF storageOk THEN "created" ELSE "failed"]
          ELSE /\ event' = [op |-> "handleCreatePasskey", outcome |-> "failed"]
               /\ UNCHANGED <<settings, deviceVars>>
    /\ UNCHANGED <<view, stories, universes, presets, sessionPassword, isGuest, isLegacyMode,
                   isLoading, error, modalContent, recovery, pending, timers>>
    /\ LoginScreenKept

\* Settings.handleRemovePasskey: "Eliminar", shown while the account has a
\* Weaver Key, after window.confirm
RemovePasskey ==
    /\ UNCHANGED <<disk, now>>
    /\ view = "settings" /\ UiFree
    /\ Get(settings.account, "passkeyCredentialId") # UNDEFINED
    /\ \E confirmed \in BOOLEAN, storageOk \in BOOLEAN :
          IF confirmed
          THEN /\ handleUpdateAccountSettings(
                     [passkeyCredentialId |-> UNDEFINED, passkeyPublicKey |-> UNDEFINED],
                     storageOk)
               /\ event' = [op |-> "handleRemovePasskey", outcome |-> "removed"]
          ELSE /\ event' = [op |-> "handleRemovePasskey", outcome |-> "cancelled"]
               /\ UNCHANGED <<settings, deviceVars>>
    /\ UNCHANGED <<view, stories, universes, presets, sessionPassword, isGuest, isLegacyMode,
                   isLoading, error, modalContent, recovery, pending, timers>>
    /\ LoginScreenKept

\* names typed into the profile's name field
NewUsernames == {"ali", ""}

\* ProfilePage.handleSave: the edited copy of the account is handed to
\* onUpdateAccountSettings (the copy was taken when the page was mounted;
\* but for the name it holds what the account holds once the rank effect
\* has run again)
RenameUser ==
    /\ UNCHANGED <<disk, now>>
    /\ view = "profile" /\ UiFree
    /\ \E username \in NewUsernames, storageOk \in BOOLEAN :
          /\ username # settings.account.username
          /\ handleUpdateAccountSettings([username |-> username], storageOk)
    /\ event' = [op |-> "handleSave"]
    /\ UNCHANGED <<view, stories, universes, presets, sessionPassword, isGuest, isLegacyMode,
                   isLoading, error, modalContent, recovery, pending, timers>>
    /\ LoginScreenKept

\* Settings, security: the switch "Acceso Rapido" turned off, which calls
\* onUpdateSettings({storage: {...settings.storage, quickAccessVault: null}});
\* handleUpdateSettings writes the metadata only when the account changed
QuickAccessOff ==
    /\ UNCHANGED <<disk, now>>
    /\ view = "settings" /\ UiFree
    /\ settings.storage.quickAccessVault # NullText
    /\ settings' = [settings EXCEPT !.storage.quickAccessVault = NullText]
    /\ event' = [op |-> "quickAccessOff"]
    /\ UNCHANGED <<view, stories, universes, presets, sessionPassword, isGuest, isLegacyMode,
                   deviceVars, isLoading, error, modalContent, recovery, pending, timers>>
    /\ LoginScreenKept

\* header button "Weaver Universe" (disabled in compatibility mode)
OpenUniverseHub ==
    /\ UNCHANGED <<disk, now>>
    /\ showHeader /\ ~isGuest /\ UiFree
    /\ ~isLegacyMode
    /\ Idle /\ TimersRun
    /\ view' = "universe_hub"
    /\ event' = [op |-> "navigate"]
    /\ UNCHANGED <<stories, universes, presets, settings, sessionPassword, isGuest, isLegacyMode,
                   deviceVars, isLoading, error, modalContent, recovery, pending, timers>>
    /\ LoginScreenKept

\* ProfilePage.onBack and UniverseHub.onBack
FeatureBack ==
    /\ UNCHANGED <<disk, now>>
    /\ view \in {"profile", "universe_hub"} /\ UiFree
    /\ view' = "home"
    /\ event' = [op |-> "navigate"]
    /\ UNCHANGED <<stories, universes, presets, settings, sessionPassword, isGuest, isLegacyMode,
                   deviceVars, isLoading, error, modalContent, recovery, pending, timers>>
    /\ LoginScreenKept

FeaturesNext ==
    \/ FileLoginSubmit
    \/ FileReadDone
    \/ DecryptDone
    \/ LegacyCancel
    \/ LegacyContinue
    \/ OfferTimerFire
    \/ OfferDecline
    \/ OpenProfile
    \/ OpenSettings
    \/ CreatePasskey
    \/ RemovePasskey
    \/ RenameUser
    \/ OpenUniverseHub
    \/ FeatureBack

SpecFeatures == Init /\ [][FeaturesNext]_vars

\* a vault is cached on the device, Quick Access is switched off in
\* Settings, the page is loaded again and handleQuickAccessLogin is called
QuickOffNext ==
    \/ FileLoginSubmit
    \/ FileReadDone
    \/ DecryptDone
    \/ LegacyCancel
    \/ LegacyContinue
    \/ OfferTimerFire
    \/ OfferDecline
    \/ OfferAccept
    \/ OpenSettings
    \/ QuickAccessOff
    \/ Reload
    \/ QuickAccessLoginCall

SpecQuickOff == Init /\ [][QuickOffNext]_vars

\* ------------------------------------------------------------------------
\* Plans: handlePurchaseTier, handleRefund, the plans page of Settings, the
\* savings goal and stingy mode of the Weaverins hub
\* ------------------------------------------------------------------------
\* how many purchases, and how many days, are followed
MaxPurchases == 2
MaxTicks == 2
\* refunds are followed while the balance is below this
MaxWeaverins == 600

\* App.tsx TIER_PRICES, for the durations of 12 and 24 hours
TIER_PRICES ==
    [free       |-> <<>>,
     essentials |-> (12 :> 100 @@ 24 :> 180),
     pro        |-> (12 :> 250 @@ 24 :> 450),
     ultra      |-> (12 :> 500 @@ 24 :> 900)]

\* tierPrices[plan.id]?.[selectedDuration] ?? 0
costOf(tier, durationHours) ==
    IF durationHours \in DOMAIN TIER_PRICES[tier] THEN TIER_PRICES[tier][durationHours] ELSE 0

Durations == {12, 24}
PaidPlans == {"essentials", "pro", "ultra"}

NotEnoughWeaverins == "No tienes suficientes Weaverins para comprar este plan."
NoPurchaseFound == "No se encontro ninguna compra para reembolsar."
RefundExpired == "El periodo de reembolso (24 horas) ha expirado."

\* handlePurchaseTier(tier, durationHours, cost)
handlePurchaseTier(tier, durationHours, cost, storageOk) ==
    IF settings.account.weaverins < cost
    THEN /\ error' = NotEnoughWeaverins
         /\ event' = [op |-> "handlePurchaseTier", outcome |-> "rejected", cost |-> cost]
         /\ UNCHANGED <<settings, deviceVars>>
    ELSE /\ handleUpdateAccountSettings(
               [weaverins     |-> settings.account.weaverins - cost,
                tier          |-> tier,
                tierExpiresAt |-> now + durationHours,
                purchases     |-> Append(settings.account.purchases,
                                         [tier |-> tier, cost |-> cost, purchaseDate |-> now])],
               storageOk)
         /\ event' = [op |-> "handlePurchaseTier", outcome |-> "purchased", cost |-> cost]
         /\ UNCHANGED error

\* faulty variant: the 24 hours are not looked at
handleRefund_AnyTime(storageOk) ==
    LET purchases == settings.account.purchases IN
    IF purchases = <<>>
    THEN /\ error' = NoPurchaseFound
         /\ event' = [op |-> "handleRefund", outcome |-> "rejected"]
         /\ UNCHANGED <<settings, deviceVars>>
    ELSE LET refundAmount == (purchases[Len(purchases)].cost * 3) \div 4 IN
         /\ handleUpdateAccountSettings(
               [weaverins |-> settings.account.weaverins + refundAmount,
                tier |-> "free", tierExpiresAt |-> 0], storageOk)
         /\ event' = [op |-> "handleRefund", outcome |-> "refunded", refundAmount |-> refundAmount]
         /\ UNCHANGED error

\* handleRefund(); Math.floor(cost * 0.75) is (cost * 3) \div 4
handleRefund(storageOk) ==
    LET purchases == settings.account.purchases IN
    IF purchases = <<>>
    THEN /\ error' = NoPurchaseFound
         /\ event' = [op |-> "handleRefund", outcome |-> "rejected"]
         /\ UNCHANGED <<settings, deviceVars>>
    ELSE LET lastPurchase == purchases[Len(purchases)]
             hoursSincePurchase == now - lastPurchase.purchaseDate
             refundAmount == (lastPurchase.cost * 3) \div 4
         IN  IF hoursSincePurchase > 24
             THEN /\ error' = RefundExpired
                  /\ event' = [op |-> "handleRefund", outcome |-> "rejected"]
                  /\ UNCHANGED <<settings, deviceVars>>
             ELSE /\ handleUpdateAccountSettings(
                        [weaverins |-> settings.account.weaverins + refundAmount,
                         tier |-> "free", tierExpiresAt |-> 0], storageOk)
                  /\ event' = [op |-> "handleRefund", outcome |-> "refunded",
                               refundAmount |-> refundAmount]
                  /\ UNCHANGED error

\* the plans page of Settings is shown (the model's Settings page is its
\* plans category, which kids mode takes out of the menu)
PlansShown == view = "settings" /\ UiFree /\ ~isKidsMode

\* TierCard "Activar por {cost} Weaverins": on the cards of the plans that
\* are not the current one, disabled={!canAfford}
PurchaseClick ==
    /\ UNCHANGED <<disk, now>>
    /\ PlansShown
    /\ Len(settings.account.purchases) < MaxPurchases
    /\ \E tier \in PaidPlans, durationHours \in Durations, storageOk \in BOOLEAN :
          /\ tier # effectiveTier
          /\ settings.account.weaverins >= costOf(tier, durationHours)
          /\ handlePurchaseTier(tier, durationHours, costOf(tier, durationHours), storageOk)
    /\ UNCHANGED <<view, stories, universes, presets, sessionPassword, isGuest, isLegacyMode,
                   isLoading, modalContent, recovery, pending, timers>>
    /\ LoginScreenKept

\* TierCard "Solicitar Reembolso": on the card of the current plan while
\* canRefund
RefundClick ==
    /\ UNCHANGED <<disk, now>>
    /\ PlansShown
    /\ effectiveTier \in PaidPlans
    /\ settings.account.purchases # <<>>
    /\ now - settings.account.purchases[Len(settings.account.purchases)].purchaseDate < 24
    /\ \E storageOk \in BOOLEAN : handleRefund(storageOk)
    /\ UNCHANGED <<view, stories, universes, presets, sessionPassword, isGuest, isLegacyMode,
                   isLoading, modalContent, recovery, pending, timers>>
    /\ LoginScreenKept

\* handlePurchaseTier called with any plan, duration and price of the table
PurchaseTierCall ==
    /\ UNCHANGED <<disk, now>>
    /\ PlansShown
    /\ Len(settings.account.purchases) < MaxPurchases
    /\ \E tier \in PaidPlans, durationHours \in Durations, storageOk \in BOOLEAN :
          handlePurchaseTier(tier, durationHours, costOf(tier, durationHours), storageOk)
    /\ UNCHANGED <<view, stories, universes, presets, sessionPassword, isGuest, isLegacyMode,
                   isLoading, modalContent, recovery, pending, timers>>
    /\ LoginScreenKept

\* handleRefund called
RefundCall ==
    /\ UNCHANGED <<disk, now>>
    /\ PlansShown
    /\ settings.account.weaverins < MaxWeaverins
    /\ \E storageOk \in BOOLEAN : handleRefund(storageOk)
    /\ UNCHANGED <<view, stories, universes, presets, sessionPassword, isGuest, isLegacyMode,
                   isLoading, modalContent, recovery, pending, timers>>
    /\ LoginScreenKept

\* the close button of the error banner: setError(null)
ErrorDismiss ==
    /\ UNCHANGED <<disk, now>>
    /\ error # NULL
    /\ error' = NULL
    /\ event' = [op |-> "setError"]
    /\ UNCHANGED <<sessionVars, deviceVars, isLoading, modalContent, recovery, pending, timers>>
    /\ LoginScreenKept

\* a day passes while the plans page is open
Tick ==
    /\ PlansShown /\ Idle /\ TimersRun
    /\ now < Now + 24 * MaxTicks
    /\ now' = now + 24
    /\ event' = [op |-> "tick"]
    /\ UNCHANGED <<disk, appVarsButNow>>

GoalInputs == {0, 600}

\* WeaverinsHub: the goal field loses focus (handleGoalBlur)
GoalBlur ==
    /\ UNCHANGED <<disk, now>>
    /\ view = "weaverins_hub" /\ UiFree
    /\ \E newGoal \in GoalInputs, storageOk \in BOOLEAN :
          /\ newGoal # settings.account.savingsGoal
          /\ handleUpdateAccountSettings([savingsGoal |-> newGoal], storageOk)
    /\ event' = [op |-> "handleGoalBlur"]
    /\ UNCHANGED <<view, stories, universes, presets, sessionPassword, isGuest, isLegacyMode,
                   isLoading, error, modalContent, recovery, pending, timers>>
    /\ LoginScreenKept

\* a session is opened from the vault file, then the hub and the plans page
\* are used as their controls allow
PlansNext ==
    \/ FileLoginSubmit
    \/ FileReadDone
    \/ DecryptDone
    \/ OfferTimerFire
    \/ OfferDecline
    \/ OpenWeaverinsHub
    \/ GoalBlur
    \/ ToggleStingyMode
    \/ GoHome
    \/ OpenSettings
    \/ PurchaseClick
    \/ RefundClick
    \/ ErrorDismiss
    \/ Tick

SpecPlans == Init /\ [][PlansNext]_vars

\* the same, with the two handlers called whatever the page shows
PlanHandlersNext ==
    \/ FileLoginSubmit
    \/ FileReadDone
    \/ DecryptDone
    \/ OfferTimerFire
    \/ OfferDecline
    \/ OpenSettings
    \/ PurchaseTierCall
    \/ RefundCall
    \/ ErrorDismiss
    \/ Tick

SpecPlanHandlers == Init /\ [][PlanHandlersNext]_vars

\* ------------------------------------------------------------------------
\* Settings.tsx: kids mode and the parental PIN
\* ------------------------------------------------------------------------
\* what can stand in the PIN field, and what can be typed at the prompt
PinTexts == {"", "1234", "9999"}

\* prompt() returns null when it is cancelled
PromptAnswers == PinTexts \cup {NULL}

\* settings.account.parentalControls?.pin || ''
parentalPin ==
    IF settings.account.parentalControls = NullObj THEN ""
    ELSE settings.account.parentalControls.pin

NoParentalControls ==
    [pin |-> "", contentFilters |-> <<>>, timeLimits |-> EmptyObj, activityLog |-> <<>>]

\* Settings.handleUpdate -> handleUpdateSettings with no account in the
\* updates: the settings state alone changes
handleUpdateGeneral(key, value) ==
    /\ settings' = [settings EXCEPT !.general = Spread(settings.general, [k \in {key} |-> value])]
    /\ UNCHANGED deviceVars

\* handleKidsModeToggle: the switch "Modo Weaver Kids" of the general
\* category, which both modes show; leaving asks for the PIN only when one
\* is set
KidsModeToggle ==
    /\ UNCHANGED <<disk, now>>
    /\ view = "settings" /\ UiFree
    /\ IF ~isKidsMode
       THEN /\ handleUpdateGeneral("uiMode", "kids")
            /\ event' = [op |-> "handleKidsModeToggle", outcome |-> "enabled"]
       ELSE IF parentalPin # ""
            THEN \E pin \in PromptAnswers :
                    IF pin = parentalPin
                    THEN /\ handleUpdateGeneral("uiMode", "standard")
                         /\ event' = [op |-> "handleKidsModeToggle", outcome |-> "disabled",
                                      prompted |-> TRUE]
                    ELSE /\ event' = [op |-> "handleKidsModeToggle", outcome |-> "wrongPin"]
                         /\ UNCHANGED <<settings, deviceVars>>
            ELSE /\ handleUpdateGeneral("uiMode", "standard")
                 /\ event' = [op |-> "handleKidsModeToggle", outcome |-> "disabled",
                              prompted |-> FALSE]
    /\ UNCHANGED <<view, stories, universes, presets, sessionPassword, isGuest, isLegacyMode,
                   isLoading, error, modalContent, recovery, pending, timers>>
    /\ LoginScreenKept

\* the field "PIN de Control Parental" of the parental category, which both
\* modes show: onChange keeps the digits and saves them at once
ParentalPinChange ==
    /\ UNCHANGED <<disk, now>>
    /\ view = "settings" /\ UiFree
    /\ \E newPin \in PinTexts, storageOk \in BOOLEAN :
        /\ newPin # parentalPin
        /\ handleUpdateAccountSettings(
              [parentalControls |->
                  Spread(IF settings.account.parentalControls = NullObj
                         THEN NoParentalControls ELSE settings.account.parentalControls,
                         [pin |-> newPin])],
              storageOk)
    /\ event' = [op |-> "parentalPinChange"]
    /\ UNCHANGED <<view, stories, universes, presets, sessionPassword, isGuest, isLegacyMode,
                   isLoading, error, modalContent, recovery, pending, timers>>
    /\ LoginScreenKept

\* Settings.onBack: home in kids mode, the profile otherwise
SettingsBack ==
    /\ UNCHANGED <<disk, now>>
    /\ view = "settings" /\ UiFree
    /\ view' = IF isKidsMode THEN "home" ELSE "profile"
    /\ event' = [op |-> "navigate"]
    /\ UNCHANGED <<stories, universes, presets, settings, sessionPassword, isGuest, isLegacyMode,
                   deviceVars, isLoading, error, modalContent, recovery, pending, timers>>
    /\ LoginScreenKept

\* a session is opened from the vault file, then the settings page is used
KidsNext ==
    \/ FileLoginSubmit
    \/ FileReadDone
    \/ DecryptDone
    \/ OfferTimerFire
    \/ OfferDecline
    \/ OpenSettings
    \/ SettingsBack
    \/ KidsModeToggle
    \/ ParentalPinChange

SpecKids == Init /\ [][KidsNext]_vars

\* ------------------------------------------------------------------------
\* App.tsx: a guest session that makes stories and presets, then onboards
\* ------------------------------------------------------------------------
MaxGuestWork == 2

\* crypto.randomUUID() of a new story, and the names of saved presets
NewStoryIds == {"g1", "g2"}

NewPresetIds == {"q1", "q2"}

GenerationFailed == "Ocurrio un error inesperado."

\* handleContinueGeneration with a pilot chapter held, from its call to its
\* return (between its awaits it sets the loading message only). The guest
\* header has no "Crear" button, so in a guest session no rendered control
\* leads to this handler: the action is the handler called as it stands,
\* which has no guest check of its own
ContinueGenerationCall ==
    /\ UNCHANGED <<disk, now>>
    /\ isGuest /\ view = "home" /\ UiFree /\ Idle
    /\ Len(stories) < MaxGuestWork
    /\ \E id \in NewStoryIds, generated \in BOOLEAN :
        /\ \A i \in 1..Len(stories) : stories[i] # id
        /\ IF generated
           THEN /\ stories' = <<id>> \o stories
                /\ view' = "story_preview"
                /\ error' = NULL
                /\ event' = [op |-> "handleContinueGeneration", outcome |-> "created"]
           ELSE /\ error' = GenerationFailed
                /\ view' = "reviewing_pilot"
                /\ event' = [op |-> "handleContinueGeneration", outcome |-> "failed"]
                /\ UNCHANGED stories
    /\ UNCHANGED <<universes, presets, settings, sessionPassword, isGuest, isLegacyMode,
                   deviceVars, isLoading, modalContent, recovery, pending, timers>>
    /\ LoginScreenKept

\* GenerationForm.onSavePreset: setPresets(pr => [...pr, p]), called as it
\* stands in a guest session
SavePresetCall ==
    /\ UNCHANGED <<disk, now>>
    /\ isGuest /\ view = "home" /\ UiFree /\ Idle
    /\ Len(presets) < MaxGuestWork
    /\ \E p \in NewPresetIds :
        /\ \A i \in 1..Len(presets) : presets[i] # p
        /\ presets' = Append(presets, p)
    /\ event' = [op |-> "onSavePreset"]
    /\ UNCHANGED <<view, stories, universes, settings, sessionPassword, isGuest, isLegacyMode,
                   deviceVars, isLoading, error, modalContent, recovery, pending, timers>>
    /\ LoginScreenKept

\* StoryPreview.onBack, or the header logo over the pilot review
LeaveGeneration ==
    /\ UNCHANGED <<disk, now>>
    /\ view \in {"story_preview", "reviewing_pilot"} /\ UiFree
    /\ view' = "home"
    /\ event' = [op |-> "navigate"]
    /\ UNCHANGED <<stories, universes, presets, settings, sessionPassword, isGuest, isLegacyMode,
                   deviceVars, isLoading, error, modalContent, recovery, pending, timers>>
    /\ LoginScreenKept

GuestNext ==
    \/ GuestLogin
    \/ ContinueGenerationCall
    \/ SavePresetCall
    \/ LeaveGeneration
    \/ ErrorDismiss
    \/ StartOnboarding
    \/ OnboardingSubmit
    \/ OnboardingReady
    \/ BackupSealDone
    \/ FirstBackupClose

SpecGuest == Init /\ [][GuestNext]_vars

Next ==
    \/ Reload
    \/ FileLoginSubmit
    \/ FileReadDone
    \/ PasskeyUnlock
    \/ MetaForged
    \/ QuickAccessSubmit
    \/ SyncSubmit
    \/ GuestLogin
    \/ DecryptDone
    \/ LegacyCancel
    \/ LegacyContinue
    \/ OfferTimerFire
    \/ OfferDecline
    \/ OfferAccept
    \/ SaveBackupClick
    \/ BackupSealDone
    \/ FirstBackupClose
    \/ StartOnboarding
    \/ OnboardingSubmit
    \/ OnboardingReady
    \/ LogoutClick
    \/ LogoutCancel
    \/ LogoutConfirm
    \/ PasswordRecoveryClick
    \/ RecoveryBack
    \/ RecoverySkipHint
    \/ RecoveryAnswerChange
    \/ RecoveryVerify
    \/ RecoverySubmit
    \/ ResetSealDone
    \/ OpenWeaverinsHub
    \/ ToggleStingyMode
    \/ GoHome
    \/ OpenInspirationBoard
    \/ AcceptDisclaimer

Spec == Init /\ [][Next]_vars

\* ------------------------------------------------------------------------
\* Overlapping logins: the login screen with a second login submitted while
\* the file of the first is still being read
\* ------------------------------------------------------------------------
OverlapNext ==
    \/ FileLoginSubmit
    \/ FileReadDone
    \/ SyncSubmit
    \/ SyncSubmitOverRead
    \/ GuestLogin
    \/ DecryptDone
    \/ LegacyCancel
    \/ LegacyContinue
    \/ OfferTimerFire
    \/ OfferDecline
    \/ OfferAccept

SpecOverlap == Init /\ [][OverlapNext]_vars

\* ------------------------------------------------------------------------
\* The quick-access handler called directly, on a device with or without a
\* cached vault
\* ------------------------------------------------------------------------
HandlerNext ==
    \/ Reload
    \/ FileLoginSubmit
    \/ FileReadDone
    \/ QuickAccessLoginCall
    \/ DecryptDone
    \/ LegacyCancel
    \/ LegacyContinue
    \/ OfferTimerFire
    \/ OfferDecline
    \/ OfferAccept

SpecHandlers == Init /\ [][HandlerNext]_vars

\* ------------------------------------------------------------------------
\* cryptoService: profile cards, on their own.  A card is made, it may be
\* altered on its way, and it is verified
\* ------------------------------------------------------------------------
\* safeStringToBase64 / safeBase64ToString
safeStringToBase64(str) == arrayBufferToBase64(TextEncode(str))

IsSafeBase64(text) == IsBase64(text) /\ IsTextEncoding(base64ToArrayBuffer(text))

safeBase64ToString(b64) == TextDecode(base64ToArrayBuffer(b64))

\* the ECDSA P-256 key pairs that exist (JWK texts importKey accepts)
KeyPairs ==
    {[privateKey |-> "sk-alice", publicKey |-> "pk-alice"],
     [privateKey |-> "sk-mallory", publicKey |-> "pk-mallory"]}

\* crypto.subtle.sign / verify with ECDSA over SHA-256
EcdsaSign(privateKey, data) == [signedBy |-> privateKey, over |-> data]

EcdsaVerify(publicKey, signature, data) ==
    /\ DOMAIN signature = {"signedBy", "over"}
    /\ [privateKey |-> signature.signedBy, publicKey |-> publicKey] \in KeyPairs
    /\ signature.over = data

\* JSON.stringify of the profile data: undefined members are dropped
ProfileJson(profileData) ==
    [json |-> [k \in {j \in DOMAIN profileData : profileData[j] # UNDEFINED} |->
                 profileData[k]]]

\* createProfileCard(account)
createProfileCard(account) ==
    LET profileData == [userId |-> account.userId, username |-> account.username,
                        avatarUrl |-> Get(account, "avatarUrl"),
                        status |-> Get(account, "status")]
        encodedData == safeStringToBase64(ProfileJson(profileData))
        signature   == EcdsaSign(account.signingKeyPair.privateKey, TextEncode(encodedData))
        card        == [v |-> "wpc1", publicKey |-> account.signingKeyPair.publicKey,
                        data |-> encodedData, sig |-> arrayBufferToBase64(signature)]
    IN  safeStringToBase64([json |-> card])

InvalidCard == "La tarjeta de perfil no es valida o esta corrupta."

\* what verifyProfileCard returns once every check has passed
profileOfCard(card) ==
    LET profileData == JsonParse(safeBase64ToString(card.data))
    IN  [ok |-> TRUE,
         profile |-> [userId |-> Get(profileData, "userId"),
                      username |-> Get(profileData, "username"),
                      avatarUrl |-> Get(profileData, "avatarUrl"),
                      status |-> Get(profileData, "status")]]

\* the card text parses to an object (JSON.parse of the decoded text)
ParsesAsCard(cardString) == IsSafeBase64(cardString) /\ IsJson(safeBase64ToString(cardString))

\* faulty variant: the signature is not checked
verifyProfileCard_SkipsSignature(cardString) ==
    IF /\ ParsesAsCard(cardString)
       /\ LET card == JsonParse(safeBase64ToString(cardString)) IN
             /\ Get(card, "v") = "wpc1"
             /\ "data" \in DOMAIN card
             /\ IsSafeBase64(card.data) /\ IsJson(safeBase64ToString(card.data))
    THEN profileOfCard(JsonParse(safeBase64ToString(cardString)))
    ELSE [ok |-> FALSE, error |-> InvalidCard]

\* verifyProfileCard(cardString): every throw inside the try ends in the
\* one error of the catch
verifyProfileCard(cardString) ==
    IF /\ ParsesAsCard(cardString)
       /\ LET card == JsonParse(safeBase64ToString(cardString)) IN
             /\ Get(card, "v") = "wpc1"
             /\ "publicKey" \in DOMAIN card
             /\ card.publicKey \in {kp.publicKey : kp \in KeyPairs}
             /\ "sig" \in DOMAIN card /\ IsBase64(card.sig)
             /\ "data" \in DOMAIN card
             /\ EcdsaVerify(card.publicKey, base64ToArrayBuffer(card.sig),
                            TextEncode(card.data))
             /\ IsSafeBase64(card.data) /\ IsJson(safeBase64ToString(card.data))
    THEN profileOfCard(JsonParse(safeBase64ToString(cardString)))
    ELSE [ok |-> FALSE, error |-> InvalidCard]

\* the accounts cards are made for: every profile under every key pair (a
\* card can be made by anyone for any profile), one of them without avatar
CardProfiles ==
    {[userId |-> "u-alice", username |-> "alice", avatarUrl |-> "a.png", status |-> "hi"],
     [userId |-> "u-alice", username |-> "alice", avatarUrl |-> "a.png", status |-> "ho"],
     [userId |-> "u-kim", username |-> "kim", status |-> "hi"]}

CardAccounts ==
    {Spread(profile, [signingKeyPair |-> kp]) : profile \in CardProfiles, kp \in KeyPairs}

\* the card as an object, and an object as a card text
CardObject(cardString) == JsonParse(safeBase64ToString(cardString))

CardText(card) == safeStringToBase64([json |-> card])

\* what can happen to a card between its maker and its verifier
CardTamperings(cardString) ==
    LET card == CardObject(cardString) IN
       {CardText([card EXCEPT !.data = CardObject(createProfileCard(a)).data]) :
            a \in CardAccounts}
    \cup {CardText([card EXCEPT !.publicKey = kp.publicKey]) : kp \in KeyPairs}
    \cup {CardText([card EXCEPT !.sig = CardObject(createProfileCard(a)).sig]) :
            a \in CardAccounts}
    \cup {CardText([card EXCEPT !.v = "wpc2"]),
          CardText([card EXCEPT !.publicKey = "{}"]),
          CardText([card EXCEPT !.sig = Garbage]),
          CardText([card EXCEPT !.data = Garbage]),
          CardText([k \in {"v", "publicKey", "data"} |-> card[k]]),
          CardText(Spread(card, [note |-> "x"])),
          arrayBufferToBase64(TextEncode(Garbage)),
          Garbage}

CardInit ==
    /\ InitApp
    /\ \E account \in CardAccounts :
          /\ disk = createProfileCard(account)
          /\ event = [op |-> "createProfileCard", account |-> account]

\* the card is altered on its way
CardTamper ==
    /\ event.op = "createProfileCard"
    /\ \E altered \in CardTamperings(disk) :
          /\ altered # disk
          /\ disk' = altered
          /\ event' = [op |-> "tamper", made |-> disk]
    /\ UNCHANGED appVars

\* verifyProfileCard(cardString)
CardVerify ==
    /\ event.op \in {"createProfileCard", "tamper"}
    /\ event' = [op |-> "verifyProfileCard", cardString |-> disk,
                 result |-> verifyProfileCard(disk)]
    /\ UNCHANGED <<disk, appVars>>

CardNext ==
    \/ CardTamper
    \/ CardVerify

SpecCard == CardInit /\ [][CardNext]_vars

\* ------------------------------------------------------------------------
\* cryptoService on its own: a bundle is sealed, the sealed bytes may be
\* damaged, and they are opened with some password
\* ------------------------------------------------------------------------
\* a bundle with a member that is undefined (JSON.stringify drops it)
UnboundBundle ==
    [AliceBundle EXCEPT !.settings.account =
        Spread(AliceBundle.settings.account, [passkeyCredentialId |-> UNDEFINED])]

CipherBundles == ExternalBundles \cup {UnboundBundle}

CipherInit ==
    /\ InitApp
    /\ \E data \in CipherBundles, password \in Passwords, saltDraw \in Nonces, ivDraw \in Nonces :
          /\ disk = encryptForFile(data, password, saltDraw, ivDraw)
          /\ event = [op |-> "encryptForFile", data |-> data, password |-> password,
                      saltDraw |-> saltDraw, ivDraw |-> ivDraw, damage |-> [kind |-> "none"]]

\* one byte of the sealed file is changed
CipherFlip ==
    /\ event.op = "encryptForFile"
    /\ \E i \in 1..Len(disk) :
          /\ disk' = FlipByte(disk, i)
          /\ event' = [event EXCEPT !.op = "damage", !.damage = [kind |-> "flip", at |-> i]]
    /\ UNCHANGED appVars

\* the sealed file is cut short
CipherTruncate ==
    /\ event.op = "encryptForFile"
    /\ \E n \in 0..(Len(disk) - 1) :
          /\ disk' = Truncate(disk, n)
          /\ event' = [event EXCEPT !.op = "damage", !.damage = [kind |-> "truncate", to |-> n]]
    /\ UNCHANGED appVars

\* decryptFromFile(fileBuffer, password)
CipherOpen ==
    /\ event.op \in {"encryptForFile", "damage"}
    /\ \E password \in Passwords :
          event' = [op |-> "decryptFromFile", sealed |-> event, password |-> password,
                    result |-> decryptFromFile(disk, password)]
    /\ UNCHANGED <<disk, appVars>>

CipherNext ==
    \/ CipherFlip
    \/ CipherTruncate
    \/ CipherOpen

SpecCipher == CipherInit /\ [][CipherNext]_vars

\* ------------------------------------------------------------------------
\* App.tsx: the settings merge of loadDataBundle on its own, over all ten
\* categories of initialSettings (two keys stand for the keys of a category)
\* ------------------------------------------------------------------------
SettingsCategories ==
    {"general", "account", "ai", "readerDefaults", "accessibility", "storage",
     "connection", "social", "privacy", "keybindings"}

initialSettingsAll ==
    [general        |-> [uiTheme |-> "dark", uiMode |-> "standard"],
     account        |-> initialAccount,
     ai             |-> [aiLanguage |-> "Espanol", creativeFreedom |-> 75],
     readerDefaults |-> [font |-> "serif", fontSize |-> 18],
     accessibility  |-> [highContrast |-> FALSE, ttsSpeed |-> 1],
     storage        |-> [autoSaveEnabled |-> FALSE, quickAccessVault |-> NullText],
     connection     |-> [syncOnWifiOnly |-> TRUE, dataSaverMode |-> FALSE],
     social         |-> [profileVisibility |-> "Privado", friendsList |-> <<>>],
     privacy        |-> [dataProcessingConsent |-> TRUE, shareAnalytics |-> TRUE],
     keybindings    |-> [nextPage |-> "ArrowRight", prevPage |-> "ArrowLeft"]]

\* { ...obj[key] }: spreading undefined gives no keys
SpreadOf(obj, key) == IF key \in DOMAIN obj THEN obj[key] ELSE EmptyObj

\* faulty variant: the loaded settings are spread over the defaults at the
\* top level only
mergedSettingsAll_TopLevelOnly(loadedSettings, qav) ==
    LET merged == Spread(initialSettingsAll, loadedSettings)
    IN  [merged EXCEPT !.storage = Spread(merged.storage, [quickAccessVault |-> qav])]

\* mergedSettings of loadDataBundle; qav is settings.storage.quickAccessVault
\* of the render the handler closed over
mergedSettingsAll(loadedSettings, qav) ==
    Spread(Spread(initialSettingsAll, loadedSettings),
           [c \in SettingsCategories |->
               IF c = "storage"
               THEN Spread(Spread(initialSettingsAll.storage, SpreadOf(loadedSettings, "storage")),
                           [quickAccessVault |-> qav])
               ELSE Spread(initialSettingsAll[c], SpreadOf(loadedSettings, c))])

\* the cached vault of this device, and the one recorded in the file
DeviceVaultText == [b64 |-> <<[byte |-> 1]>>]
FileVaultText == [b64 |-> <<[byte |-> 2]>>]

\* how much of a category a decrypted bundle carries: all of it, one of its
\* keys, or nothing
GeneralVariants == {[uiTheme |-> "light", uiMode |-> "kids"], [uiTheme |-> "light"]}
SocialVariants == {[profileVisibility |-> "Publico", friendsList |-> <<"f1">>],
                   [friendsList |-> <<"f1">>, legacyField |-> "x"]}
StorageVariants == {[autoSaveEnabled |-> TRUE, quickAccessVault |-> FileVaultText],
                    [autoSaveEnabled |-> TRUE, quickAccessVault |-> NullText],
                    [autoSaveEnabled |-> TRUE]}
AccountVariants == {AliceBundle.settings.account, [username |-> "old"]}

\* the settings objects of the bundles that are loaded
LoadedSettingsInputs ==
    {Spread(Spread(g, s), Spread(t, a)) :
        g \in {EmptyObj} \cup {[general |-> v] : v \in GeneralVariants},
        s \in {EmptyObj} \cup {[social |-> v] : v \in SocialVariants},
        t \in {EmptyObj} \cup {[storage |-> v] : v \in StorageVariants},
        a \in {[account |-> v] : v \in AccountVariants}}

MergeInit ==
    /\ InitApp
    /\ disk = <<>>
    /\ \E loadedSettings \in LoadedSettingsInputs :
          event = [op |-> "decrypted", loadedSettings |-> loadedSettings]

\* Reload, as far as the settings go: the cached vault is read back
MergeMount ==
    /\ event.op = "decrypted"
    /\ settings.storage.quickAccessVault = NullText
    /\ settings' = [settings EXCEPT !.storage.quickAccessVault = DeviceVaultText]
    /\ UNCHANGED <<view, stories, universes, presets, isLoading, error, modalContent,
                   isGuest, isLegacyMode, sessionPassword, quickAccessMeta, recovery,
                   passkeyVerified, localStorage, pending, timers, disk, event, now>>

\* loadDataBundle, as far as the settings go
MergeLoad ==
    /\ event.op = "decrypted"
    /\ settings' = mergedSettingsAll(event.loadedSettings, settings.storage.quickAccessVault)
    /\ event' = [op |-> "loadDataBundle", loadedSettings |-> event.loadedSettings,
                 qav |-> settings.storage.quickAccessVault]
    /\ UNCHANGED <<view, stories, universes, presets, isLoading, error, modalContent,
                   isGuest, isLegacyMode, sessionPassword, quickAccessMeta, recovery,
                   passkeyVerified, localStorage, pending, timers, disk, now>>

MergeNext ==
    \/ MergeMount
    \/ MergeLoad

SpecMerge == MergeInit /\ [][MergeNext]_vars

\* ------------------------------------------------------------------------
\* cryptoService: encryptForFile called again and again (by backups, by
\* onboarding, by password resets), each call with its own two draws of
\* crypto.getRandomValues
\* ------------------------------------------------------------------------
\* how many calls are followed
MaxSeals == 2

SealBundles == {AliceBundle, UnboundBundle}

SealsInit ==
    /\ InitApp
    /\ disk = <<>>
    /\ event = [op |-> "encryptForFile", made |-> <<>>]

\* one more call of encryptForFile(data, password)
SealAgain ==
    /\ Len(event.made) < MaxSeals
    /\ \E data \in SealBundles, password \in Passwords, saltDraw \in Nonces, ivDraw \in Nonces :
          /\ disk' = encryptForFile(data, password, saltDraw, ivDraw)
          /\ event' = [event EXCEPT !.made =
                          Append(@, [data |-> data, password |-> password,
                                     saltDraw |-> saltDraw, ivDraw |-> ivDraw,
                                     sealed |-> disk'])]
    /\ UNCHANGED appVars

SpecSeals == SealsInit /\ [][SealAgain]_vars

\* ------------------------------------------------------------------------
\* Properties of the vault cipher (under SpecCipher)
\* ------------------------------------------------------------------------
\* C1: decryptFromFile returns no bundle when the password differs from the
\* sealing password, when a byte of the iv or ciphertext region was changed,
\* or when the file was cut short; each of these cases ends in the same
\* single error.
C1_OpenFailsUniformly ==
    event.op = "decryptFromFile" =>
        ((\/ event.password # event.sealed.password
          \/ event.sealed.damage.kind = "flip" /\ event.sealed.damage.at > 16
          \/ event.sealed.damage.kind = "truncate")
         => event.result = [ok |-> FALSE, error |-> DecryptionFailed])

\* the right password on a file whose last byte (the tag) was changed
C1_Witness ==
    /\ event.op = "decryptFromFile"
    /\ event.sealed.damage.kind = "flip"
    /\ event.sealed.damage.at = Len(disk)
    /\ event.password = event.sealed.password
    /\ event.result = [ok |-> FALSE, error |-> DecryptionFailed]

\* C2: opening what encryptForFile(B, P) wrote, with P, succeeds and gives B
\* as JSON.parse(JSON.stringify(B)) gives it; the file is a 16-byte salt,
\* then a 12-byte iv, then the ciphertext.
C2_RoundTripAndLayout ==
    (/\ event.op = "decryptFromFile"
     /\ event.sealed.damage.kind = "none"
     /\ event.password = event.sealed.password)
    => /\ event.result.ok
       /\ event.result.bundle = JsonParse(JsonStringify(event.sealed.data))
       /\ Len(disk) > 16 + 12
       /\ SubSeq(disk, 1, 16) = RandomBytes(16, event.sealed.saltDraw)
       /\ SubSeq(disk, 17, 28) = RandomBytes(12, event.sealed.ivDraw)
       /\ SubSeq(disk, 29, Len(disk)) =
              AesGcmEncrypt(getEncryptionKey(event.password, SubSeq(disk, 1, 16)),
                            SubSeq(disk, 17, 28),
                            TextEncode(JsonStringify(event.sealed.data)))

\* a round trip that is not the identity: the bundle had an undefined member
C2_Witness ==
    /\ event.op = "decryptFromFile"
    /\ event.sealed.damage.kind = "none"
    /\ event.password = event.sealed.password
    /\ event.result.ok
    /\ event.result.bundle # event.sealed.data
    /\ event.sealed.saltDraw # event.sealed.ivDraw

\* ------------------------------------------------------------------------
\* Properties of the application
\* ------------------------------------------------------------------------
VaultKey == "weaver_quick_access_vault"
MetaKey == "weaver_meta"
DisclaimerKey == "weaver_disclaimer_accepted"

Outcome(e) == IF "outcome" \in DOMAIN e THEN e.outcome ELSE "none"

\* a login attempt has just ended in failure
LoginFailed(e) ==
    \/ e.op = "decryptAndLoad" /\ Outcome(e) \in {"decryptFailed", "loadFailed"}
    \/ e.op = "legacyModal" /\ Outcome(e) = "loadFailed"
    \/ e.op = "handleSyncLogin" /\ Outcome(e) = "invalidData"
    \/ e.op = "handleQuickAccessLogin" /\ Outcome(e) = "noCache"

\* C3: a login attempt that fails, at decryption or while the decrypted
\* bundle is being loaded (the compatibility path included), leaves stories,
\* presets, universes, settings, session password, compatibility flag, view,
\* quick-access cache and metadata as they were, shows an error and clears
\* the loading indicator.
C3_FailedLoginLeavesSession ==
    [][LoginFailed(event') =>
          /\ UNCHANGED <<stories, presets, universes, settings, sessionPassword,
                         isLegacyMode, view, localStorage, quickAccessMeta>>
          /\ error' # NULL
          /\ isLoading' = FALSE]_vars

\* C4: a vault whose bundle has a version greater than DATA_VERSION is never
\* loaded: with such a vault as the user's file, no login ends loaded, the
\* session holds nothing of the bundle and the application stays logged out.
C4_NewerVersionRejected ==
    LET bundle == PlainBundle(disk) IN
    ("version" \in DOMAIN bundle /\ bundle.version > DATA_VERSION) =>
        /\ ~(event.op = "decryptAndLoad" /\ Outcome(event) = "loaded")
        /\ stories # bundle.stories
        /\ settings.account.userId # bundle.settings.account.userId

\* the bundle's version is missing or lower than the current data version
OlderThanCurrent(bundle) ==
    "version" \notin DOMAIN bundle \/ bundle.version < DATA_VERSION

\* C5: a bundle whose version is missing or lower than DATA_VERSION enters
\* the session only by the step that confirms the compatibility prompt, and
\* that step sets the compatibility flag; declining the prompt changes no
\* session state, cache or metadata and leaves the view where it was.
C5_LegacyNeedsConfirmation ==
    [][/\ (event'.op = "legacyModal" /\ Outcome(event') = "declined") =>
             /\ UNCHANGED <<sessionVars, localStorage, quickAccessMeta>>
             /\ modalContent' = NoModal
       /\ LET bundle == PlainBundle(disk) IN
          (/\ OlderThanCurrent(bundle)
           /\ stories # bundle.stories
           /\ stories' = bundle.stories) =>
             /\ modalContent.kind = "legacy"
             /\ event'.op = "legacyModal"
             /\ isLegacyMode']_vars

C5_Witness ==
    /\ event.op = "legacyModal" /\ Outcome(event) = "declined"
    /\ OlderThanCurrent(PlainBundle(disk))
    /\ view = "login" /\ stories = <<>> /\ sessionPassword = NULL
    /\ localStorage = EmptyObj

\* the stored form of an answer: SHA-256 of the trimmed, lower-cased text
NormalizedHash(answer) ==
    arrayBufferToBase64(Sha256(TextEncode(ToLowerCase(Trim(answer)))))

GenericRejection == "Una o mas respuestas son incorrectas."

\* C6: the recovery flow passes to the reset step only from the questions
\* step, by a submission in which the normalized hash of every answer equals
\* the stored hash; a submission with any mismatch leaves the flow at the
\* questions step with the answers as typed, and the message it shows is the
\* same whichever answer was wrong.
C6_ResetOnlyAfterAllAnswersMatch ==
    [][LET questionData == settings.account.securityQuestions IN
       /\ (recovery'.step = 2 /\ recovery.step # 2) =>
             /\ recovery.step = 1
             /\ event'.op = "verifyAnswers"
             /\ Len(recovery.answers) = Len(questionData)
             /\ \A i \in 1..Len(questionData) :
                   NormalizedHash(recovery.answers[i]) = questionData[i].answerHash
       /\ (/\ event'.op = "verifyAnswers"
           /\ \E i \in 1..Len(questionData) :
                 /\ i \in DOMAIN recovery.answers
                 /\ NormalizedHash(recovery.answers[i]) # questionData[i].answerHash) =>
             /\ recovery' = recovery
             /\ recovery'.step = 1
             /\ view' = "password_recovery"
             /\ event' = [op |-> "verifyAnswers", outcome |-> "rejected",
                          alert |-> GenericRejection]]_vars

C6_Witness ==
    /\ event.op = "verifyAnswers" /\ Outcome(event) = "accepted"
    /\ recovery.step = 2
    /\ Len(recovery.answers) = 2
    /\ recovery.answers[1] = RexTyped

\* C7: when the recovery screen is shown for a vault cached on the device
\* whose account has security questions, the questions it asks are that
\* account's questions.
C7_RecoveryAsksAccountQuestions ==
    (view = "password_recovery" /\ IsBase64(getItem(VaultKey))) =>
        LET bundle == PlainBundle(base64ToArrayBuffer(getItem(VaultKey))) IN
        (/\ "settings" \in DOMAIN bundle
         /\ "account" \in DOMAIN bundle.settings
         /\ "securityQuestions" \in DOMAIN bundle.settings.account
         /\ bundle.settings.account.securityQuestions # <<>>) =>
            settings.account.securityQuestions = bundle.settings.account.securityQuestions

\* does the cached text open under the password?
Opens(text, password) ==
    IsBase64(text) /\ decryptFromFile(base64ToArrayBuffer(text), password).ok

C9_LogoutClearsDevice ==
    [][/\ (event'.op = "handleLogout" /\ Outcome(event') = "confirmed") =>
             /\ view' = "login"
             /\ sessionPassword' = NULL
             /\ stories' = <<>> /\ presets' = <<>> /\ universes' = <<>>
             /\ settings' = initialSettings
             /\ VaultKey \notin DOMAIN localStorage'
             /\ MetaKey \notin DOMAIN localStorage'
       /\ (/\ view = "login" /\ sessionPassword = NULL
           /\ \E key \in {VaultKey, MetaKey} :
                 key \notin DOMAIN localStorage /\ key \in DOMAIN localStorage') =>
             event'.op \in {"decryptAndLoad", "legacyModal", "handleCompleteOnboarding",
                            "handlePasswordRecovery"}]_vars

\* the text is a vault sealed under some password: salt, iv, and a
\* ciphertext that authenticates
IsSealedVault(text) ==
    /\ IsBase64(text)
    /\ \E p \in Passwords \cup NewPasswords \cup OnboardingPasswords :
          decryptFromFile(base64ToArrayBuffer(text), p).ok

\* the text is the metadata record {username, passkeyCredentialId}
IsMetaRecord(text) ==
    /\ IsJson(text)
    /\ DOMAIN JsonParse(text) \subseteq {"username", "passkeyCredentialId"}
    /\ "username" \in DOMAIN JsonParse(text)
    /\ JsonParse(text).username \notin Passwords \cup NewPasswords \cup OnboardingPasswords

StoredVaultAndMetaAreSafe ==
    /\ VaultKey \in DOMAIN localStorage => IsSealedVault(localStorage[VaultKey])
    /\ MetaKey \in DOMAIN localStorage => IsMetaRecord(localStorage[MetaKey])

\* C10, as stated: localStorage holds nothing but the sealed vault and the
\* metadata record
C10_StoreHoldsOnlyVaultAndMeta ==
    /\ DOMAIN localStorage \subseteq {VaultKey, MetaKey}
    /\ StoredVaultAndMetaAreSafe

\* C10: localStorage holds nothing but the sealed vault, the metadata record
\* {username, passkeyCredentialId} and the flag that the inspiration board's
\* disclaimer was accepted; no password, key, plaintext bundle or private
\* key is in it.
C10_StoreHoldsNoSecret ==
    /\ DOMAIN localStorage \subseteq {VaultKey, MetaKey, DisclaimerKey}
    /\ StoredVaultAndMetaAreSafe
    /\ DisclaimerKey \in DOMAIN localStorage => localStorage[DisclaimerKey] = [str |-> "true"]

C10_Witness ==
    /\ DOMAIN localStorage = {VaultKey, MetaKey, DisclaimerKey}
    /\ sessionPassword # NULL
    /\ settings.account.signingKeyPair.privateKey = "sk-alice"

\* a login has just put a decrypted bundle into the session (wholly, or up
\* to the statement of loadDataBundle that threw)
LoadEvent(e) ==
    /\ e.op \in {"decryptAndLoad", "legacyModal"}
    /\ Outcome(e) \in {"loaded", "loadFailed"}

\* the buffer is a vault sealed under a key derived from the password
SealedUnder(buf, password) ==
    /\ Len(buf) > SaltLen + IvLen
    /\ DOMAIN buf[SaltLen + IvLen + 1] = {"key", "iv", "of", "at"}
    /\ buf[SaltLen + IvLen + 1].key = getEncryptionKey(password, SubSeq(buf, 1, SaltLen))

\* C11: a login puts vault data into the session, or offers it in the
\* old-version prompt, only when the vault it was given was sealed under the
\* password typed with it, on the passkey path as on the others; accepting
\* the prompt loads what the prompt holds; vault data enters the session by
\* no other step, and verifying the passkey (whatever the stored metadata
\* says) changes nothing of the session, the cache or the metadata and
\* starts no vault operation.
C11_PasswordAlwaysNeeded ==
    [][/\ (/\ event'.op = "decryptAndLoad"
           /\ Outcome(event') \in {"loaded", "loadFailed", "legacyPrompt"}) =>
             \E op \in pending \ pending' :
                /\ op.kind = "decrypt"
                /\ SealedUnder(op.vaultBuffer, op.password)
                /\ IF Outcome(event') = "legacyPrompt"
                   THEN /\ modalContent'.bundle = PlainBundle(op.vaultBuffer)
                        /\ modalContent'.password = op.password
                        /\ UNCHANGED sessionVars
                   ELSE (stories' # stories \/ sessionPassword' # sessionPassword) =>
                           /\ sessionPassword' = op.password
                           /\ stories' = OrEmpty(PlainBundle(op.vaultBuffer), "stories")
       /\ (event'.op = "legacyModal" /\ LoadEvent(event')) =>
             /\ modalContent.kind = "legacy"
             /\ (stories' # stories \/ sessionPassword' # sessionPassword) =>
                   /\ sessionPassword' = modalContent.password
                   /\ stories' = OrEmpty(modalContent.bundle, "stories")
       /\ (stories' # stories /\ stories' # <<>>) => LoadEvent(event')
       /\ (sessionPassword' # sessionPassword /\ sessionPassword' # NULL) =>
             \/ LoadEvent(event')
             \/ event'.op \in {"handleCompleteOnboarding", "handlePasswordRecovery"}
       /\ event'.op \in {"handleUnlockWithPasskey", "metaForged"} =>
             UNCHANGED <<sessionVars, quickAccessMeta, pending, isLoading>>]_vars

C11_Witness ==
    /\ event.op = "decryptAndLoad" /\ Outcome(event) = "loaded"
    /\ event.via = "passkey"
    /\ JsonParse(getItem(MetaKey)).username = "kim"
    /\ sessionPassword = "CorrectHorse1"
    /\ stories = <<"s2">>

\* C12: a login operation that completes after the session has left the
\* login screen where it was started (a guest session was entered
\* meanwhile) changes neither the session bundle, the session password, the
\* view, nor the cache and the metadata.
C12_LateCompletionIsNoOp ==
    [][(event'.op \in {"decryptAndLoad", "legacyModal"} /\ view # "login") =>
          UNCHANGED <<stories, presets, universes, settings, sessionPassword, isGuest,
                      view, localStorage, quickAccessMeta>>]_vars

\* the vault operations: what decrypts or seals a bundle
VaultOps == {op \in pending : op.kind \in {"decrypt", "backupSeal", "onboarding", "resetSeal"}}

\* C13: at most one vault operation is in flight at any time.
C13_OneVaultOperationAtATime == Cardinality(VaultOps) <= 1

\* a session entered by accepting the compatibility prompt
LegacySession == isLegacyMode /\ sessionPassword # NULL /\ view # "login"

\* C14: while a session entered through the compatibility prompt lasts, the
\* universe hub is not opened, the stored writer rank and rank points are
\* not updated and no Weaver Key is created.
C14_CompatibilityDisablesFeatures ==
    [][(LegacySession /\ LegacySession') =>
          /\ view' # "universe_hub"
          /\ settings'.account.writerRank = settings.account.writerRank
          /\ settings'.account.rankPoints = settings.account.rankPoints
          /\ Get(settings'.account, "passkeyCredentialId") =
                Get(settings.account, "passkeyCredentialId")]_vars

\* C15: a quick-access login called while no vault is cached ends with an
\* error message that is not the decryption-failed message, starts
\* no decryption, and changes nothing of the session, the cache, the
\* metadata, the spinner, the modal or the timers; a decryption by the
\* quick-access path is started only on the cached vault.
C15_NoCacheFailsDistinctly ==
    [][/\ (event'.op = "handleQuickAccessLogin" \/
           (settings.storage.quickAccessVault = NullText /\ pending' # pending
              /\ \E op \in pending' \ pending : Get(op, "via") \in {"quick", "passkey"})) =>
             /\ settings.storage.quickAccessVault = NullText
             /\ Outcome(event') = "noCache"
             /\ error' \notin {NULL, DecryptionFailed}
             /\ UNCHANGED <<sessionVars, deviceVars, pending, isLoading, modalContent,
                            timers, disk>>
       /\ \A op \in pending' \ pending :
             Get(op, "via") \in {"quick", "passkey"} =>
                /\ IsBase64(settings.storage.quickAccessVault)
                /\ op.vaultBuffer = base64ToArrayBuffer(settings.storage.quickAccessVault)]_vars

\* the handler was called on a device without a cached vault
C15_Witness ==
    /\ event.op = "handleQuickAccessLogin" /\ Outcome(event) = "noCache"
    /\ settings.storage.quickAccessVault = NullText
    /\ VaultKey \notin DOMAIN localStorage
    /\ error = NoQuickAccess

C17_GuestSessionIsCleanAndWritesNothing ==
    [][/\ event'.op = "handleGuestLogin" =>
             /\ stories' = <<>> /\ presets' = <<>> /\ universes' = <<>>
             /\ settings' = initialSettings
             /\ sessionPassword' = NULL
             /\ ~isLegacyMode'
             /\ UNCHANGED deviceVars
       /\ (isGuest /\ isGuest') =>
             /\ UNCHANGED deviceVars
             /\ UNCHANGED sessionPassword
             /\ ~(event'.op = "handleSaveBackup" /\ Outcome(event') \in {"started", "saved"})]_vars

\* the device's quick-access cache after the step
CacheAfter == IF VaultKey \in DOMAIN localStorage' THEN localStorage'[VaultKey] ELSE NullText

\* C18: a step of a login (the completed decryption, the accepted or
\* declined old-version prompt, the offer being shown or declined) leaves
\* the quick-access cache as it was; apart from a password reset, the cache
\* gets a value only by the step that accepts the offer, and the value is
\* the base64 text of the bytes the offer was made for; an offer is made
\* only for the bytes a login has just opened and loaded with the typed
\* password; a quick-access login that loads a session loads what the
\* cached bytes hold.
C18_CacheOnlyOnAcceptedOffer ==
    [][/\ (\/ event'.op \in {"decryptAndLoad", "legacyModal", "handleFileLogin",
                             "handleSyncLogin", "handleQuickAccessLogin"}
           \/ (event'.op = "quickAccessOffer" /\ Outcome(event') # "accepted")) =>
             CacheAfter = getItem(VaultKey)
       /\ (CacheAfter # getItem(VaultKey) /\ CacheAfter # NullText
             /\ event'.op # "handlePasswordRecovery") =>
             /\ event'.op = "quickAccessOffer" /\ Outcome(event') = "accepted"
             /\ modalContent.kind = "quickAccessOffer"
             /\ CacheAfter = [b64 |-> modalContent.vaultBuffer]
             /\ settings'.storage.quickAccessVault = CacheAfter
             /\ UNCHANGED <<stories, presets, universes, sessionPassword, view>>
       /\ (modalContent'.kind = "quickAccessOffer" /\ modalContent' # modalContent) =>
             [vaultBuffer |-> modalContent'.vaultBuffer] \in timers
       /\ (timers' \ timers # {}) =>
             /\ event'.op = "decryptAndLoad" /\ Outcome(event') = "loaded"
             /\ event'.via \in {"file", "sync"}
             /\ \E op \in pending \ pending' :
                   /\ timers' \ timers = {[vaultBuffer |-> op.vaultBuffer]}
                   /\ SealedUnder(op.vaultBuffer, op.password)
                   /\ sessionPassword' = op.password
                   /\ LET bundle == PlainBundle(op.vaultBuffer) IN
                         /\ stories' = bundle.stories
                         /\ presets' = bundle.presets
                         /\ universes' = bundle.universes
       /\ (event'.op = "decryptAndLoad" /\ Outcome(event') = "loaded"
             /\ event'.via \in {"quick", "passkey"}) =>
             /\ IsBase64(getItem(VaultKey))
             /\ LET bundle == PlainBundle(getItem(VaultKey).b64) IN
                   /\ stories' = bundle.stories
                   /\ presets' = bundle.presets
                   /\ universes' = bundle.universes]_vars

\* the offer was accepted after a file or sync login, the page was loaded
\* again and the quick-access login has loaded the same stories
C18_Witness ==
    /\ event.op = "decryptAndLoad" /\ Outcome(event) = "loaded" /\ event.via = "quick"
    /\ getItem(VaultKey) = [b64 |-> disk]
    /\ stories = PlainBundle(disk).stories
    /\ sessionPassword = "CorrectHorse1"

\* the four members of a card that verifyProfileCard reads
CardMembers == {"v", "publicKey", "data", "sig"}

MembersOf(cardString) ==
    IF ParsesAsCard(cardString) /\ CardMembers \subseteq DOMAIN CardObject(cardString)
    THEN [k \in CardMembers |-> CardObject(cardString)[k]]
    ELSE Garbage

\* the profile data of an account, as a friend record
FriendOf(account) ==
    [userId |-> account.userId, username |-> account.username,
     avatarUrl |-> Get(account, "avatarUrl"), status |-> Get(account, "status")]

\* C19 as stated: a card verifies if and only if its text is, unmodified,
\* the output of createProfileCard for some account.
C19_OnlyUnmodifiedCardsVerify ==
    event.op = "verifyProfileCard" =>
       (event.result.ok <=>
           event.cardString \in {createProfileCard(a) : a \in CardAccounts})

\* C19, amended: a card verifies if and only if its members v, publicKey,
\* data and sig are those of an output of createProfileCard; the profile
\* returned is then exactly that account's userId, username, avatarUrl and
\* status; every other card (data or signature of another card, another
\* public key, another version tag, a member missing, text that is not a
\* card) gets the one invalid-card error and nothing else.
C19_CardVerifiesIffMembersGenuine ==
    event.op = "verifyProfileCard" =>
       LET genuine == {a \in CardAccounts :
                          MembersOf(event.cardString) = MembersOf(createProfileCard(a))}
       IN  /\ event.result.ok <=> genuine # {}
           /\ event.result.ok =>
                 \A a \in genuine :
                    event.result = [ok |-> TRUE, profile |-> FriendOf(a)]
           /\ ~event.result.ok =>
                 event.result =
                    [ok |-> FALSE,
                     error |-> "La tarjeta de perfil no es valida o esta corrupta."]

\* a card whose public key was replaced while the signature was kept has
\* been verified (and refused)
C19_Witness ==
    /\ event.op = "verifyProfileCard"
    /\ ParsesAsCard(event.cardString)
    /\ CardObject(event.cardString).publicKey = "pk-mallory"
    /\ CardObject(event.cardString).sig.b64.signedBy = "sk-alice"
    /\ CardObject(event.cardString).v = "wpc1"
    /\ ~event.result.ok

\* the hashes of trimmed, lower-cased answers
StoredHashes ==
    {arrayBufferToBase64(Sha256(TextEncode(a))) : a \in {<<"r", "x">>, <<"m">>, <<>>}}

\* the bundles the application holds or has written: the one of the session,
\* the ones handed to encryptForFile by a save or a reset, the cached vault
HeldBundles ==
    {currentBundle}
    \cup {op.bundle : op \in {o \in pending : o.kind \in {"backupSeal", "resetSeal"}}}
    \cup (IF VaultKey \in DOMAIN localStorage /\ IsBase64(localStorage[VaultKey])
          THEN {PlainBundle(base64ToArrayBuffer(localStorage[VaultKey]))}
          ELSE {})

StoredQuestionsOf(bundle) ==
    IF "settings" \in DOMAIN bundle /\ "account" \in DOMAIN bundle.settings
       /\ "securityQuestions" \in DOMAIN bundle.settings.account
    THEN {bundle.settings.account.securityQuestions[i] :
              i \in 1..Len(bundle.settings.account.securityQuestions)}
    ELSE {}

\* C20: no bundle of an onboarding, a save or a reset, and nothing in
\* localStorage, contains a raw security-question answer: each stored
\* question has the question text and the hash of the trimmed, lower-cased
\* answer and nothing else, and the accounts made from the answers "Rx" and
\* " rX " store the same hash
C20_OnlyAnswerHashesAreStored ==
    /\ \A bundle \in HeldBundles :
        /\ \A q \in StoredQuestionsOf(bundle) :
              /\ DOMAIN q = {"question", "answerHash"}
              /\ q.answerHash \in StoredHashes
        /\ StoredQuestionsOf(bundle) # {}
              => /\ "answer" \notin DOMAIN bundle.settings.account
                 /\ bundle.settings.account.username \in {"bob", "bea"}
                       => \A q \in StoredQuestionsOf(bundle) :
                              q.answerHash = arrayBufferToBase64(Sha256(TextEncode(<<"r", "x">>)))
    /\ MetaKey \in DOMAIN localStorage /\ IsJson(localStorage[MetaKey])
          => "securityQuestions" \notin DOMAIN JsonParse(localStorage[MetaKey])

\* the account made from the answer " rX " has been onboarded and its first
\* backup sealed
C20_Witness ==
    /\ settings.account.username = "bea"
    /\ StoredQuestionsOf(currentBundle) # {}
    /\ modalContent.kind = "firstBackup"

\* C21: a passkey creation or assertion that ends in its error message (the
\* platform threw, the user cancelled, or a later step of the handler threw)
\* leaves the passkey unverified and records no passkey on the account or in
\* the metadata; the login screen and the settings page stay usable
C21_PasskeyFailureChangesNothing ==
    [][(event'.op \in {"handleCreatePasskey", "handleUnlockWithPasskey"}
          /\ Outcome(event') = "failed") =>
            /\ ~passkeyVerified'
            /\ Get(settings'.account, "passkeyCredentialId")
                  = Get(settings.account, "passkeyCredentialId")
            /\ quickAccessMeta' = quickAccessMeta
            /\ localStorage' = localStorage
            /\ view' = view /\ ~isLoading']_vars

\* the calls of encryptForFile made so far (under SpecSeals)
SealsMade == IF "made" \in DOMAIN event THEN event.made ELSE <<>>

Merged == event.op = "loadDataBundle" /\ "loadedSettings" \in DOMAIN event

\* the bundle supplies key k of category c
Supplies(loadedSettings, c, k) == c \in DOMAIN loadedSettings /\ k \in DOMAIN loadedSettings[c]

LastPurchase == settings.account.purchases[Len(settings.account.purchases)]

\* C24: a purchase whose cost exceeds the balance, and a refund asked for
\* with no purchase on record or more than 24 hours after the last one, end
\* in an error message and change nothing of the account or of the stored
\* metadata; the message can be dismissed; the balance is never negative
C24_RejectionsChangeNothing ==
    /\ [](settings.account.weaverins >= 0)
    /\ [](error # NULL => ENABLED ErrorDismiss)
    /\ [][/\ (event'.op = "handlePurchaseTier" /\ event'.cost > settings.account.weaverins)
              => /\ event'.outcome = "rejected"
                 /\ error' = NotEnoughWeaverins
                 /\ UNCHANGED <<settings, deviceVars>>
          /\ (event'.op = "handleRefund"
               /\ (settings.account.purchases = <<>> \/ now - LastPurchase.purchaseDate > 24))
              => /\ event'.outcome = "rejected"
                 /\ error' \in {NoPurchaseFound, RefundExpired}
                 /\ UNCHANGED <<settings, deviceVars>>]_vars

\* a refund was asked for two days after the purchase and was rejected
C24_Witness ==
    /\ event = [op |-> "handleRefund", outcome |-> "rejected"]
    /\ error = RefundExpired
    /\ settings.account.purchases # <<>>
    /\ settings.account.tier # "free"

\* the account has just been updated through handleUpdateAccountSettings
AccountUpdated(e) ==
    \/ e.op \in {"updateRank", "handleSave", "handleGoalBlur", "handleUpdateAccountSettings"}
    \/ e.op = "handleCreatePasskey" /\ Outcome(e) = "created"
    \/ e.op = "handleRemovePasskey" /\ Outcome(e) = "removed"
    \/ e.op = "handlePurchaseTier" /\ Outcome(e) = "purchased"
    \/ e.op = "handleRefund" /\ Outcome(e) = "refunded"

\* C25: in a session that is not a guest's, after every update of the
\* account the metadata held for the login screen is the account's username
\* and passkeyCredentialId, and what localStorage holds under weaver_meta is
\* that record whenever the write went through; after the Weaver Key was
\* removed the metadata carries no passkeyCredentialId
C25_MetadataFollowsAccount ==
    [][(AccountUpdated(event') /\ ~isGuest) =>
          /\ quickAccessMeta' = [username |-> settings'.account.username,
                                 passkeyCredentialId |->
                                     Get(settings'.account, "passkeyCredentialId")]
          /\ localStorage' \in {localStorage,
                                [localStorage EXCEPT !["weaver_meta"] =
                                     JsonStringify(quickAccessMeta')]}]_vars

\* C26: switching Quick Access off removes the cached vault from
\* localStorage, and a page load that follows finds no cached vault (the
\* login screen then offers no quick-access login, and
\* handleQuickAccessLogin ends with the no-cache error)
C26_QuickAccessOffRemovesVault ==
    [][/\ event'.op = "quickAccessOff"
            => "weaver_quick_access_vault" \notin DOMAIN localStorage'
       /\ (event.op = "quickAccessOff" /\ event'.op = "mount")
            => settings'.storage.quickAccessVault = NullText]_vars


C29_StingyModeBlocksPurchases ==
    [][(/\ settings.account.stingyMode
        /\ settings.account.weaverins < settings.account.savingsGoal
        /\ event'.op = "handlePurchaseTier")
       => /\ event'.outcome = "rejected"
          /\ settings'.account.weaverins = settings.account.weaverins
          /\ settings'.account.tier = settings.account.tier
          /\ settings'.account.purchases = settings.account.purchases]_vars

C28_KidsModeNeedsPinToLeave ==
    [][(isKidsMode /\ parentalPin # "")
       => /\ ~isKidsMode' =>
                /\ event'.op = "handleKidsModeToggle"
                /\ event'.outcome = "disabled"
                /\ event'.prompted
          /\ isKidsMode' => parentalPin' # ""]_vars

=========================================================================
